---- MODULE Spec2Model ----
(***************************************************************************)
(* The dev-server supervisor of apps/desktop/src-tauri/src/commands.rs:    *)
(* the DevServerManager table (one DevServerProcess per project path), the *)
(* commands dev_server_start, dev_server_stop and dev_server_state, the    *)
(* two log-draining threads of every spawned child, and the capped log     *)
(* buffer they share.                                                      *)
(*                                                                         *)
(* Commands run on a pool of threads (tauri async commands), so a command  *)
(* is a sequence of steps; a step is what the code does between two points *)
(* where another thread can observe or change the shared table.  The table *)
(* mutex is the variable lock.                                             *)
(*                                                                         *)
(* The functions around it that compute a result from their arguments      *)
(* alone (the dev-script port functions, dev_server_detect and             *)
(* dev_server_diagnose) are operators; each has a specification of its own *)
(* that draws the arguments in its initial state and applies the function. *)
(***************************************************************************)
EXTENDS Integers, Sequences, FiniteSets, TLC

(* ------------------------------ bounds --------------------------------- *)

\* Threads of the command pool that may run commands concurrently.
NumThreads == 2
\* Children spawned in one run (pids 1..MaxPid).
MaxPid == 2
\* Lines one child delivers (both streams together) in the supervisor runs.
MaxEmit == 1
\* dev_server_stop calls on one record in the supervisor runs.
MaxStops == 2
\* Lines the stdout stream delivers in the log-buffer runs.
LogMaxEmit == 250
\* dev_server_stop calls on one record in the log-buffer runs.
LogMaxStops == 1
\* Watcher threads start_watcher spawns in one run.
MaxWatchers == 3
\* Advances of the clock in one run of the status cache.
MaxTicks == 4
\* get_status_cached calls in one run.
MaxCalls == 4
\* Mutating git commands per repository in one run of the status cache.
MaxMutations == 2
\* Length of the paths argument of reorder_saved_projects.
MaxPaths == 3

(* ------------------------- program constants --------------------------- *)

\* add_log: `if logs.len() > 200 { logs.remove(0); }`
LogCap == 200
\* Option::<Child>::None of DevServerProcess.child (pids start at 1).
None == 0
\* Option::<u16>::None of DevServerConfig.port / DevServerProcess.port.
NoPort == -1

Keys == {"a", "b"}
Threads == 1..NumThreads
Pids == 1..MaxPid
Streams == {"out", "err"}
Ports == {3000}

\* DevServerConfig: command, args (joined by " "), port.
Configs == {[command |-> "bun", args |-> "run dev", port |-> 3000],
            [command |-> "npm", args |-> "run dev", port |-> NoPort]}
NoCfg == [command |-> "", args |-> "", port |-> NoPort]

VARIABLES
    servers,     \* DevServerManager.servers: path -> DevServerProcess
    lock,        \* holder of the servers mutex, 0 when free
    logs,        \* the Arc<Mutex<Vec<String>>> created with child p
    children,    \* OS processes spawned: state, command line, cwd
    nextPid,     \* next pid the OS hands out
    drainCount,  \* lines the drain thread of (child, stream) has appended
    listening,   \* ports accepting connections on 127.0.0.1
    pc,          \* per thread: position in the command it runs
    call,        \* per thread: the command's arguments (path, config)
    tchild,      \* per thread: `child` local of dev_server_start
    qAlive,      \* per thread: `process_alive` local of dev_server_state
    ret,         \* what the step just taken returned to its caller, if it returned
    phase,       \* history: per path, last of successful start / stop
    markers,     \* history: stopped markers pushed to the buffer of child p
    drainDone,   \* the drain thread of (child, stream) has returned
    bufLock,     \* per log buffer: who holds its mutex (0: nobody)
    status_cache,    \* AppState.status_cache: entries, hits, misses
    clock,           \* what Instant::now() reads, in ms
    repo,            \* per repository: mutations it has seen (version); history:
                     \* the latest of them whose command has returned (acked)
    recent_projects, \* AppState.recent_projects
    current_project, \* AppState.current_project
    watcher_handle,  \* AppState.watcher_handle: the watcher whose handle is stored
    watchers,        \* file-watcher threads start_watcher has spawned
    saved_projects,  \* content of saved_projects.json
    cmd,             \* per thread: the AppState command it runs and its locals
    result,          \* what the AppState command step just taken returned, if it returned
    input,       \* arguments of the function under evaluation (dev-script and
                 \* diagnosis functions), <<>> while the supervisor runs
    output       \* what that function returned, NoOutput before it is called

managerVars == <<servers, lock, logs, children, nextPid, drainCount,
                 listening, pc, call, tchild, qAlive, ret, phase, markers,
                 drainDone, bufLock>>

vars == <<servers, lock, logs, children, nextPid, drainCount,
          listening, pc, call, tchild, qAlive, ret, phase, markers,
          drainDone, bufLock, input, output,
          status_cache, clock, repo, recent_projects, current_project,
          watcher_handle, watchers, saved_projects, cmd, result>>

appVars == <<status_cache, clock, repo, recent_projects, current_project,
             watcher_handle, watchers, saved_projects, cmd, result>>

(* ------------------------------- values -------------------------------- *)

\* The function under evaluation has not been called.
NoOutput == [op |-> "none"]

NoCmd == <<"", "">>

\* `format!("{} {}", config.command, config.args.join(" "))`
started_command(cfg) == <<cfg.command, cfg.args>>

\* A log line without its capture timestamp.
StartLine(cfg) == [kind |-> "start", cmd |-> started_command(cfg)]
StoppedLine == [kind |-> "stopped"]
\* The n-th line child p wrote to stream s.
StreamLine(p, s, n) == [kind |-> s, pid |-> p, n |-> n]

NoCall == [key |-> "", cfg |-> NoCfg]

\* exited: the process ended on its own, before anything killed it.
NoChild == [state |-> "none", cmd |-> NoCmd, key |-> "", exited |-> FALSE]

\* A returned value: Result<(), String> of start (its Err names the commands
\* tried) and stop, DevServerState of dev_server_state.
NoResult == [op |-> "none", key |-> "", ok |-> TRUE, err |-> <<>>,
             running |-> FALSE, port |-> NoPort, logs |-> <<>>]

\* `if config.command == "bun" { "npm" } else { "bun" }`
fallback_command(cfg) == IF cfg.command = "bun" THEN "npm" ELSE "bun"
\* `if fallback_command == "yarn" { ["dev"] } else { ["run", "dev"] }`
fallback_args(cfg) == IF fallback_command(cfg) = "yarn" THEN "dev" ELSE "run dev"

\* servers.contains_key(k)
Tracked(k) == k \in DOMAIN servers

\* servers.insert(k, rec)
Insert(k, rec) == [x \in DOMAIN servers \cup {k} |-> IF x = k THEN rec ELSE servers[x]]

\* Mutant: the kill is left out.
KillChild_Skip(ch, c) == ch

\* `let _ = child.kill();` -- SIGKILL; on a child that has exited it changes
\* nothing, and whatever kill returns is dropped.
KillChild(ch, c) == IF c = None THEN ch ELSE [ch EXCEPT ![c].state = "dead"]

\* Mutant: the cap is tested with >= instead of >.
add_log_OffByOne(buf, line) ==
    LET pushed == Append(buf, line)
    IN  IF Len(pushed) >= LogCap THEN Tail(pushed) ELSE pushed

\* Mutant: the line is put at the front of the buffer.
add_log_Prepend(buf, line) ==
    LET pushed == <<line>> \o buf
    IN  IF Len(pushed) > LogCap THEN Tail(pushed) ELSE pushed

\* add_log: push, then drop the oldest line when over the cap.
add_log(buf, line) ==
    LET pushed == Append(buf, line)
    IN  IF Len(pushed) > LogCap THEN Tail(pushed) ELSE pushed

\* dev_server_stop: `logs.push(format!("[{}] Server stopped", ..))`
PushStopped(buf) == Append(buf, StoppedLine)

\* Mutant: a record without a child handle counts as alive.
ProbeAlive_NoneIsAlive(c) ==
    IF c = None THEN {TRUE}
    ELSE IF children[c].state = "alive" THEN {TRUE}
    ELSE {TRUE, FALSE}

\* Outcomes of `kill -0 <pid>` for the tracked child: a running process
\* answers; an exited or killed child is never waited for, so whether its pid
\* still answers depends on the platform (zombie, reaped, reused).
ProbeAlive(c) ==
    IF c = None THEN {FALSE}
    ELSE IF children[c].state = "alive" THEN {TRUE}
    ELSE {TRUE, FALSE}

\* Mutant: without an expected port the probe answers for any listener.
ProbePort_AnyListener(p) == IF p = NoPort THEN listening # {} ELSE p \in listening

\* `TcpStream::connect_timeout("127.0.0.1:{p}", 500ms).is_ok()`
ProbePort(p) == IF p = NoPort THEN FALSE ELSE p \in listening

\* Mutant: either probe is enough.
Running_Either(process_alive, port_listening) == process_alive \/ port_listening

\* `let running = process_alive && port_listening;`
Running(process_alive, port_listening) == process_alive /\ port_listening

(* --------------------------- AppState: values --------------------------- *)

\* Directories that are git repositories, and one that is not.
Repos == {"/w/p01", "/w/p02", "/w/p03", "/w/p04", "/w/p05", "/w/p06",
          "/w/p07", "/w/p08", "/w/p09", "/w/p10", "/w/p11", "/w/p12"}
NotRepos == {"/w/tmp"}

\* Option::<String>::None of AppState.current_project.
NoProject == "<none>"

\* Watcher threads of one run, by the order start_watcher spawned them.
Wids == 1..MaxWatchers

\* stop_sent: `()` is in the thread's stop channel; sender: the WatcherHandle
\* (the channel's Sender) still exists.
NoWatcher == [state |-> "none", path |-> "", stop_sent |-> FALSE, sender |-> FALSE]

\* A thread that runs no AppState command.
Idle == [pc |-> "idle"]

\* No AppState command returned in this step.
NoReturn == [op |-> "none"]

\* AppState::default() (lines 29-38), an empty saved_projects.json, no watcher.
AppInit ==
    /\ status_cache = [entries |-> <<>>, hits |-> 0, misses |-> 0]
    /\ clock = 0
    /\ repo = [p \in Repos |-> [version |-> 0, acked |-> 0]]
    /\ recent_projects = <<>>
    /\ current_project = NoProject
    /\ watcher_handle = None
    /\ watchers = [w \in Wids |-> NoWatcher]
    /\ saved_projects = <<>>
    /\ cmd = [t \in Threads |-> Idle]
    /\ result = NoReturn

(* -------------------------------- Init --------------------------------- *)

ManagerInit ==
    /\ servers = <<>>
    /\ lock = 0
    /\ logs = [p \in Pids |-> <<>>]
    /\ children = [p \in Pids |-> NoChild]
    /\ nextPid = 1
    /\ drainCount = [p \in Pids |-> [s \in Streams |-> 0]]
    /\ listening = {}
    /\ pc = [t \in Threads |-> "idle"]
    /\ call = [t \in Threads |-> NoCall]
    /\ tchild = [t \in Threads |-> None]
    /\ qAlive = [t \in Threads |-> FALSE]
    /\ ret = NoResult
    /\ phase = [k \in Keys |-> "idle"]
    /\ markers = [p \in Pids |-> 0]
    /\ drainDone = [p \in Pids |-> [s \in Streams |-> FALSE]]
    /\ bufLock = [p \in Pids |-> 0]

Init ==
    /\ ManagerInit
    /\ AppInit
    /\ input = <<>>
    /\ output = NoOutput

(* -------------------------- dev_server_start --------------------------- *)

\* Starts that have not spawned yet: each will need a pid.
Spawning == {t \in Threads : pc[t] = "spawn"}

\* Lines 2455-2463 with the result of child.kill() propagated: a start on a
\* record whose child has exited returns the kill error.
StartKill_FailOnDead(t, k, cfg) ==
    /\ pc[t] = "idle"
    /\ lock = 0
    /\ nextPid + Cardinality(Spawning) <= MaxPid
    /\ IF Tracked(k) /\ servers[k].child # None /\ children[servers[k].child].exited
       THEN /\ ret' = [NoResult EXCEPT !.op = "start", !.key = k, !.ok = FALSE]
            /\ UNCHANGED <<children, pc, call>>
       ELSE /\ children' = IF Tracked(k) THEN KillChild(children, servers[k].child) ELSE children
            /\ pc' = [pc EXCEPT ![t] = "spawn"]
            /\ call' = [call EXCEPT ![t] = [key |-> k, cfg |-> cfg]]
            /\ ret' = NoResult
    /\ UNCHANGED <<bufLock, drainDone, input, output, appVars>>
    /\ UNCHANGED <<servers, lock, logs, nextPid, drainCount,
                   listening, tchild, qAlive, phase, markers>>

\* Lines 2455-2463: under the table lock, kill the child of an existing record.
StartKill(t, k, cfg) ==
    /\ pc[t] = "idle"
    /\ lock = 0
    /\ nextPid + Cardinality(Spawning) <= MaxPid
    /\ children' = IF Tracked(k) THEN KillChild(children, servers[k].child) ELSE children
    /\ pc' = [pc EXCEPT ![t] = "spawn"]
    /\ call' = [call EXCEPT ![t] = [key |-> k, cfg |-> cfg]]
    /\ ret' = NoResult
    /\ UNCHANGED <<bufLock, drainDone, input, output, appVars>>
    /\ UNCHANGED <<servers, lock, logs, nextPid, drainCount,
                   listening, tchild, qAlive, phase, markers>>

\* Lines 2529-2566: the child runs, its log buffer holds the start line, and
\* the two drain threads are running.
Spawned(t, cmdline) ==
    /\ children' = [children EXCEPT
                      ![nextPid] = [state |-> "alive", cmd |-> cmdline, key |-> call[t].key,
                                     exited |-> FALSE]]
    /\ logs' = [logs EXCEPT ![nextPid] = <<StartLine(call[t].cfg)>>]
    /\ tchild' = [tchild EXCEPT ![t] = nextPid]
    /\ nextPid' = nextPid + 1
    /\ pc' = [pc EXCEPT ![t] = "install"]
    /\ ret' = NoResult
    /\ UNCHANGED <<bufLock, drainDone, input, output, appVars>>
    /\ UNCHANGED <<servers, lock, drainCount, listening, call,
                   qAlive, phase, markers>>

\* Lines 2495-2496: `command.spawn()` is Ok.
SpawnPrimary(t) ==
    /\ pc[t] = "spawn"
    /\ Spawned(t, <<call[t].cfg.command, call[t].cfg.args>>)

\* Lines 2497-2526: `command.spawn()` is Err and `fallback.spawn()` is Ok.
SpawnFallback(t) ==
    /\ pc[t] = "spawn"
    /\ Spawned(t, <<fallback_command(call[t].cfg), fallback_args(call[t].cfg)>>)

\* Lines 2520-2525: both spawns are Err; dev_server_start returns the Err
\* naming config.command and fallback_command.
SpawnFail(t) ==
    /\ pc[t] = "spawn"
    /\ ret' = [NoResult EXCEPT !.op = "start", !.key = call[t].key, !.ok = FALSE,
                     !.err = <<call[t].cfg.command, fallback_command(call[t].cfg)>>]
    /\ pc' = [pc EXCEPT ![t] = "idle"]
    /\ call' = [call EXCEPT ![t] = NoCall]
    /\ UNCHANGED <<bufLock, drainDone, input, output, appVars>>
    /\ UNCHANGED <<servers, lock, logs, children, nextPid, drainCount,
                   listening, tchild, qAlive, phase, markers>>

\* Lines 2568-2575 with the buffer of an existing record kept.
StartInstall_KeepBuffer(t) ==
    /\ pc[t] = "install"
    /\ lock = 0
    /\ servers' = Insert(call[t].key,
                         [child |-> tchild[t], port |-> call[t].cfg.port,
                          logs |-> IF Tracked(call[t].key)
                                   THEN servers[call[t].key].logs ELSE tchild[t]])
    /\ phase' = [phase EXCEPT ![call[t].key] = "running"]
    /\ ret' = [NoResult EXCEPT !.op = "start", !.key = call[t].key]
    /\ tchild' = [tchild EXCEPT ![t] = None]
    /\ pc' = [pc EXCEPT ![t] = "idle"]
    /\ call' = [call EXCEPT ![t] = NoCall]
    /\ UNCHANGED <<bufLock, drainDone, input, output, appVars>>
    /\ UNCHANGED <<lock, logs, children, nextPid, drainCount,
                   listening, qAlive, markers>>

\* Lines 2568-2575: under the table lock, insert the new record.
StartInstall(t) ==
    /\ pc[t] = "install"
    /\ lock = 0
    /\ servers' = Insert(call[t].key,
                         [child |-> tchild[t], port |-> call[t].cfg.port, logs |-> tchild[t]])
    /\ phase' = [phase EXCEPT ![call[t].key] = "running"]
    /\ ret' = [NoResult EXCEPT !.op = "start", !.key = call[t].key]
    /\ tchild' = [tchild EXCEPT ![t] = None]
    /\ pc' = [pc EXCEPT ![t] = "idle"]
    /\ call' = [call EXCEPT ![t] = NoCall]
    /\ UNCHANGED <<bufLock, drainDone, input, output, appVars>>
    /\ UNCHANGED <<lock, logs, children, nextPid, drainCount,
                   listening, qAlive, markers>>

(* --------------------------- dev_server_stop --------------------------- *)

\* Mutant: the child handle is not cleared.
StoppedRecord_KeepChild(rec) == rec

\* What dev_server_stop leaves of a record: `server.child = None`.
StoppedRecord(rec) == [rec EXCEPT !.child = None]

\* Lines 2586-2597, all of it under the table lock.
Stop(t, k, bound) ==
    /\ pc[t] = "idle"
    /\ lock = 0
    /\ IF Tracked(k)
       THEN /\ markers[servers[k].logs] < bound
            /\ children' = KillChild(children, servers[k].child)
            /\ servers' = [servers EXCEPT ![k] = StoppedRecord(servers[k])]
            /\ logs' = [logs EXCEPT ![servers[k].logs] = PushStopped(logs[servers[k].logs])]
            /\ phase' = [phase EXCEPT ![k] = "stopped"]
            /\ markers' = [markers EXCEPT ![servers[k].logs] = markers[servers[k].logs] + 1]
       ELSE UNCHANGED <<children, servers, logs, phase, markers>>
    /\ ret' = [NoResult EXCEPT !.op = "stop", !.key = k]
    /\ UNCHANGED <<bufLock, drainDone, input, output, appVars>>
    /\ UNCHANGED <<lock, nextPid, drainCount, listening, pc, call,
                   tchild, qAlive>>

(* --------------------------- dev_server_state -------------------------- *)

\* Lines 2608-2618: take the table lock, look the record up, probe the child.
QueryBegin(t, k) ==
    /\ pc[t] = "idle"
    /\ lock = 0
    /\ lock' = t
    /\ pc' = [pc EXCEPT ![t] = "q_probe"]
    /\ call' = [call EXCEPT ![t] = [key |-> k, cfg |-> NoCfg]]
    /\ \E alive \in (IF Tracked(k) THEN ProbeAlive(servers[k].child) ELSE {FALSE}) :
           qAlive' = [qAlive EXCEPT ![t] = alive]
    /\ ret' = NoResult
    /\ UNCHANGED <<bufLock, drainDone, input, output, appVars>>
    /\ UNCHANGED <<servers, logs, children, nextPid, drainCount,
                   listening, tchild, phase, markers>>

\* Mutant: an untracked path gets the port and logs of some record.
StateOf_AnyRecord(k, process_alive) ==
    LET x == IF Tracked(k) \/ DOMAIN servers = {} THEN k ELSE CHOOSE y \in DOMAIN servers : TRUE
    IN  IF Tracked(x)
        THEN [NoResult EXCEPT !.op = "query", !.key = k,
                  !.running = Running(process_alive, ProbePort(servers[x].port)),
                  !.port = servers[x].port,
                  !.logs = logs[servers[x].logs]]
        ELSE [NoResult EXCEPT !.op = "query", !.key = k]

\* The DevServerState dev_server_state builds (lines 2620-2651).
StateOf(k, process_alive) ==
    IF Tracked(k)
    THEN [NoResult EXCEPT !.op = "query", !.key = k,
              !.running = Running(process_alive, ProbePort(servers[k].port)),
              !.port = servers[k].port,
              !.logs = logs[servers[k].logs]]
    ELSE [NoResult EXCEPT !.op = "query", !.key = k,
              !.running = FALSE, !.port = NoPort, !.logs = <<>>]

\* Mutant: a query whose liveness probe failed clears the record's child handle.
QueryEnd_ClearsDead(t) ==
    /\ pc[t] = "q_probe"
    /\ ret' = StateOf(call[t].key, qAlive[t])
    /\ servers' = IF Tracked(call[t].key) /\ ~qAlive[t]
                  THEN [servers EXCEPT ![call[t].key].child = None]
                  ELSE servers
    /\ qAlive' = [qAlive EXCEPT ![t] = FALSE]
    /\ lock' = 0
    /\ pc' = [pc EXCEPT ![t] = "idle"]
    /\ call' = [call EXCEPT ![t] = NoCall]
    /\ UNCHANGED <<bufLock, drainDone, input, output, appVars>>
    /\ UNCHANGED <<logs, children, nextPid, drainCount,
                   listening, tchild, phase, markers>>

\* Lines 2620-2651: probe the port, snapshot the logs, return; the lock guard drops.
QueryEnd(t) ==
    /\ pc[t] = "q_probe"
    /\ ret' = StateOf(call[t].key, qAlive[t])
    /\ qAlive' = [qAlive EXCEPT ![t] = FALSE]
    /\ lock' = 0
    /\ pc' = [pc EXCEPT ![t] = "idle"]
    /\ call' = [call EXCEPT ![t] = NoCall]
    /\ UNCHANGED <<bufLock, drainDone, input, output, appVars>>
    /\ UNCHANGED <<servers, logs, children, nextPid, drainCount,
                   listening, tchild, phase, markers>>

(* ------------------------ drain threads, children ----------------------- *)

\* Lines the drain threads of child p have appended so far.
Drained(p) == drainCount[p]["out"] + drainCount[p]["err"]

\* Lines 2546-2566: a drain thread reads the next line of its pipe and add_logs
\* it.  Lines buffered in the pipe still arrive after the child is gone.
Drain(p, s, bound) ==
    /\ children[p].state # "none"
    /\ ~drainDone[p][s]
    /\ Drained(p) < bound
    /\ logs' = [logs EXCEPT ![p] = add_log(logs[p], StreamLine(p, s, drainCount[p][s] + 1))]
    /\ drainCount' = [drainCount EXCEPT ![p][s] = drainCount[p][s] + 1]
    /\ ret' = NoResult
    /\ UNCHANGED <<bufLock, drainDone, input, output, appVars>>
    /\ UNCHANGED <<servers, lock, children, nextPid, listening, pc,
                   call, tchild, qAlive, phase, markers>>

\* Lines 2549-2553 with the end of the pipe seen only when the child ended
\* on its own.
DrainEOF_OnlyOnExit(p, s) ==
    /\ children[p].exited
    /\ ~drainDone[p][s]
    /\ drainDone' = [drainDone EXCEPT ![p][s] = TRUE]
    /\ ret' = NoResult
    /\ UNCHANGED <<servers, lock, logs, children, nextPid, drainCount, listening,
                   pc, call, tchild, qAlive, phase, markers, bufLock, input, output, appVars>>

\* Lines 2549-2553 and 2560-2564: the child is gone (exited or killed), the
\* pipe has no writer left, reader.lines() ends and the thread returns.  Lines
\* the thread had not read by then were never written.
DrainEOF(p, s) ==
    /\ children[p].state = "dead"
    /\ ~drainDone[p][s]
    /\ drainDone' = [drainDone EXCEPT ![p][s] = TRUE]
    /\ ret' = NoResult
    /\ UNCHANGED <<servers, lock, logs, children, nextPid, drainCount, listening,
                   pc, call, tchild, qAlive, phase, markers, bufLock, input, output, appVars>>

\* The child exits on its own (crash, or the dev command ends).
ChildExit(p) ==
    /\ children[p].state = "alive"
    /\ children' = [children EXCEPT ![p].state = "dead", ![p].exited = TRUE]
    /\ ret' = NoResult
    /\ UNCHANGED <<bufLock, drainDone, input, output, appVars>>
    /\ UNCHANGED <<servers, lock, logs, nextPid, drainCount, listening,
                   pc, call, tchild, qAlive, phase, markers>>

\* Something (the child, or an unrelated service) starts or stops listening.
PortChange(p) ==
    /\ listening' = IF p \in listening THEN listening \ {p} ELSE listening \cup {p}
    /\ ret' = NoResult
    /\ UNCHANGED <<bufLock, drainDone, input, output, appVars>>
    /\ UNCHANGED <<servers, lock, logs, children, nextPid, drainCount,
                   pc, call, tchild, qAlive, phase, markers>>

(* ---------------------------- specification ----------------------------- *)

Next ==
    \/ \E t \in Threads, k \in Keys, cfg \in Configs : StartKill(t, k, cfg)
    \/ \E t \in Threads : SpawnPrimary(t)
    \/ \E t \in Threads : SpawnFallback(t)
    \/ \E t \in Threads : SpawnFail(t)
    \/ \E t \in Threads : StartInstall(t)
    \/ \E t \in Threads, k \in Keys : Stop(t, k, MaxStops)
    \/ \E t \in Threads, k \in Keys : QueryBegin(t, k)
    \/ \E t \in Threads : QueryEnd(t)
    \/ \E p \in Pids, s \in Streams : Drain(p, s, MaxEmit)
    \/ \E p \in Pids : ChildExit(p)
    \/ \E p \in Ports : PortChange(p)

Spec == Init /\ [][Next]_vars


\* Commands called one after the other: a command begins only when no other
\* command is in progress.
Busy == {t \in Threads : pc[t] # "idle"}
SeqNext ==
    \/ \E t \in Threads, k \in Keys, cfg \in Configs : Busy = {} /\ StartKill(t, k, cfg)
    \/ \E t \in Threads : SpawnPrimary(t)
    \/ \E t \in Threads : SpawnFallback(t)
    \/ \E t \in Threads : SpawnFail(t)
    \/ \E t \in Threads : StartInstall(t)
    \/ \E t \in Threads, k \in Keys : Busy = {} /\ Stop(t, k, MaxStops)
    \/ \E t \in Threads, k \in Keys : Busy = {} /\ QueryBegin(t, k)
    \/ \E t \in Threads : QueryEnd(t)
    \/ \E p \in Pids, s \in Streams : Drain(p, s, MaxEmit)
    \/ \E p \in Pids : ChildExit(p)
    \/ \E p \in Ports : PortChange(p)

SeqSpec == Init /\ [][SeqNext]_vars

\* The log buffer of one record filled by its stdout drain thread, with
\* dev_server_stop called at any moment.
LogNext ==
    \/ nextPid = 1 /\ StartKill(1, "a", [command |-> "bun", args |-> "run dev", port |-> 3000])
    \/ SpawnPrimary(1)
    \/ StartInstall(1)
    \/ Stop(1, "a", LogMaxStops)
    \/ Drain(1, "out", LogMaxEmit)

LogSpec == Init /\ [][LogNext]_vars

\* Lines a child writes, both streams together, in StreamSpec.
StreamMaxEmit == 4
\* Children spawned in LockSpec.
LockMaxPid == 1

\* One record whose child writes to both streams, with dev_server_stop and
\* dev_server_state called at any moment.
StreamNext ==
    \/ nextPid = 1 /\ StartKill(1, "a", [command |-> "bun", args |-> "run dev", port |-> 3000])
    \/ SpawnPrimary(1)
    \/ StartInstall(1)
    \/ Stop(1, "a", LogMaxStops)
    \/ QueryBegin(1, "a")
    \/ QueryEnd(1)
    \/ \E s \in Streams : Drain(1, s, StreamMaxEmit)
    \/ ChildExit(1)

StreamSpec == Init /\ [][StreamNext]_vars

\* A path started again and again (MaxPid children in all) with
\* dev_server_stop and dev_server_state in between; each child writes up to
\* MaxEmit lines to stdout, the last one up to LogMaxEmit.
RestartNext ==
    \/ StartKill(1, "a", [command |-> "bun", args |-> "run dev", port |-> 3000])
    \/ SpawnPrimary(1)
    \/ StartInstall(1)
    \/ Stop(1, "a", LogMaxStops)
    \/ QueryBegin(1, "a")
    \/ QueryEnd(1)
    \/ \E p \in Pids : Drain(p, "out", IF p = MaxPid THEN LogMaxEmit ELSE MaxEmit)

RestartSpec == Init /\ [][RestartNext]_vars

\* One record, its child and its two drain threads up to their return.  The
\* threads are scheduled by the OS: a thread whose pipe is at its end does
\* return.
EofNext ==
    \/ nextPid = 1 /\ StartKill(1, "a", [command |-> "bun", args |-> "run dev", port |-> 3000])
    \/ SpawnPrimary(1)
    \/ StartInstall(1)
    \/ Stop(1, "a", LogMaxStops)
    \/ QueryBegin(1, "a")
    \/ QueryEnd(1)
    \/ \E s \in Streams : Drain(1, s, StreamMaxEmit)
    \/ \E s \in Streams : DrainEOF(1, s)
    \/ ChildExit(1)

EofSpec ==
    /\ Init
    /\ [][EofNext]_vars
    /\ \A s \in Streams : WF_vars(DrainEOF(1, s))

(* ---------------------- dev-script port functions ----------------------- *)
(* parse_explicit_port_from_dev_script, infer_default_dev_port and         *)
(* update_explicit_port_in_dev_script work on the text of the package.json *)
(* dev script.  Strings are sequences of characters: Len, SubSeq, Tail and *)
(* \o apply to them.                                                       *)

\* Longest dev script enumerated, in tokens.
MaxTokens == 3

\* u16::MAX: str::parse::<u16> fails above it.
U16Max == 65535

\* char::is_whitespace, for the characters the enumerated scripts use.
IsSpace(c) == c = " " \/ c = "\t"

\* char::is_ascii_digit.
is_ascii_digit(c) == \E d \in 0..9 : SubSeq("0123456789", d + 1, d + 1) = c

DigitValue(c) == CHOOSE d \in 0..9 : SubSeq("0123456789", d + 1, d + 1) = c

AllDigits(s) == \A i \in 1..Len(s) : is_ascii_digit(SubSeq(s, i, i))

RECURSIVE DecimalValue(_)
DecimalValue(s) ==
    IF s = "" THEN 0
    ELSE 10 * DecimalValue(SubSeq(s, 1, Len(s) - 1)) + DigitValue(SubSeq(s, Len(s), Len(s)))

\* str::parse::<u16>: an optional "+" sign, then one or more ASCII digits
\* whose value fits 16 bits; NoPort stands for Err.  Digit strings of the
\* enumerated scripts are short enough for DecimalValue not to wrap.
parse_u16(s) ==
    LET digits == IF s # "" /\ SubSeq(s, 1, 1) = "+" THEN Tail(s) ELSE s
    IN  IF digits # "" /\ AllDigits(digits) /\ DecimalValue(digits) <= U16Max
        THEN DecimalValue(digits)
        ELSE NoPort

\* u16::to_string (and "{}" in format!).
RECURSIVE to_string(_)
to_string(n) ==
    IF n < 10 THEN SubSeq("0123456789", n + 1, n + 1)
    ELSE to_string(n \div 10) \o SubSeq("0123456789", (n % 10) + 1, (n % 10) + 1)

starts_with(s, prefix) == Len(s) >= Len(prefix) /\ SubSeq(s, 1, Len(prefix)) = prefix

\* The Some(value) of str::strip_prefix; callers test starts_with first.
strip_prefix(s, prefix) == SubSeq(s, Len(prefix) + 1, Len(s))

\* str::contains.
contains(s, needle) ==
    \E i \in 1..(Len(s) - Len(needle) + 1) : SubSeq(s, i, i + Len(needle) - 1) = needle

\* Length of the longest prefix of s without whitespace.
RECURSIVE WordLen(_)
WordLen(s) ==
    IF s = "" \/ IsSpace(SubSeq(s, 1, 1)) THEN 0 ELSE 1 + WordLen(Tail(s))

\* str::split_whitespace().collect().
RECURSIVE split_whitespace(_)
split_whitespace(s) ==
    IF s = "" THEN <<>>
    ELSE IF IsSpace(SubSeq(s, 1, 1)) THEN split_whitespace(Tail(s))
    ELSE <<SubSeq(s, 1, WordLen(s))>> \o split_whitespace(SubSeq(s, WordLen(s) + 1, Len(s)))

\* [String]::join(sep).
RECURSIVE join(_, _)
join(parts, sep) ==
    IF parts = <<>> THEN ""
    ELSE IF Len(parts) = 1 THEN parts[1]
    ELSE parts[1] \o sep \o join(Tail(parts), sep)

\* The first index of a non-empty set of indexes.
First(S) == CHOOSE i \in S : \A j \in S : i <= j

\* Lines 2000-2033, with the compact form -pN left out.
parse_explicit_port_from_dev_script_NoCompact(dev_script) ==
    LET parts == split_whitespace(dev_script)
        At(i) ==
            IF parts[i] = "-p" \/ parts[i] = "--port"
            THEN IF i + 1 <= Len(parts) THEN parse_u16(parts[i + 1]) ELSE NoPort
            ELSE IF starts_with(parts[i], "--port=")
            THEN parse_u16(strip_prefix(parts[i], "--port="))
            ELSE NoPort
        hits == {i \in 1..Len(parts) : At(i) # NoPort}
    IN  IF hits = {} THEN NoPort ELSE At(First(hits))

\* Lines 2000-2033.  At(i) is what the loop body returns for parts[i],
\* NoPort when it moves on to the next part; the loop returns at the first
\* part that yields a port and None (NoPort) when no part does.
parse_explicit_port_from_dev_script(dev_script) ==
    LET parts == split_whitespace(dev_script)
        At(i) ==
            IF parts[i] = "-p" \/ parts[i] = "--port"
            THEN IF i + 1 <= Len(parts) THEN parse_u16(parts[i + 1]) ELSE NoPort
            ELSE IF starts_with(parts[i], "--port=")
            THEN parse_u16(strip_prefix(parts[i], "--port="))
            ELSE IF starts_with(parts[i], "-p") /\ strip_prefix(parts[i], "-p") # ""
            THEN parse_u16(strip_prefix(parts[i], "-p"))
            ELSE NoPort
        hits == {i \in 1..Len(parts) : At(i) # NoPort}
    IN  IF hits = {} THEN NoPort ELSE At(First(hits))

\* Lines 2035-2045.
infer_default_dev_port(dev_script) ==
    IF contains(dev_script, "next") THEN 3000
    ELSE IF contains(dev_script, "vite") THEN 5173
    ELSE IF contains(dev_script, "remix") THEN 3000
    ELSE 3000

UpdateOk(script) == [op |-> "update", ok |-> TRUE, value |-> script]
UpdateErr(msg) == [op |-> "update", ok |-> FALSE, value |-> msg]

\* Lines 2047-2080.  The loop returns at the first part that is a port flag
\* for it: "-p" or "--port" (an error when it is the last part), a part that
\* starts with "--port=", or "-p" followed by one or more ASCII digits.
update_explicit_port_in_dev_script(dev_script, port) ==
    LET parts == split_whitespace(dev_script)
        IsFlag(i) == parts[i] = "-p" \/ parts[i] = "--port"
        IsAssign(i) == starts_with(parts[i], "--port=")
        IsCompact(i) == /\ starts_with(parts[i], "-p")
                        /\ strip_prefix(parts[i], "-p") # ""
                        /\ AllDigits(strip_prefix(parts[i], "-p"))
        hits == {i \in 1..Len(parts) : IsFlag(i) \/ IsAssign(i) \/ IsCompact(i)}
        i == First(hits)
    IN  IF parts = <<>> THEN UpdateErr("Dev script is empty")
        ELSE IF hits = {} THEN UpdateErr("Dev script does not define an explicit port flag")
        ELSE IF IsFlag(i)
        THEN IF i + 1 > Len(parts)
             THEN UpdateErr("Dev script has a port flag without a value")
             ELSE UpdateOk(join([parts EXCEPT ![i + 1] = to_string(port)], " "))
        ELSE IF IsAssign(i)
        THEN UpdateOk(join([parts EXCEPT ![i] = "--port=" \o to_string(port)], " "))
        ELSE UpdateOk(join([parts EXCEPT ![i] = "-p" \o to_string(port)], " "))

\* Dev scripts enumerated: up to MaxTokens tokens of ScriptTokens, joined by
\* one space or led and joined by two.
PortTexts == {"7842", "65535", "65536", "+80", "abc"}
ScriptTokens ==
    {"next", "dev", "-p", "--port", "--port="}
        \cup PortTexts
        \cup {"-p" \o v : v \in PortTexts}
        \cup {"--port=" \o v : v \in {"7842", "abc"}}
Layouts == {[lead |-> "", sep |-> " "], [lead |-> " ", sep |-> "  "]}
Scripts ==
    {l.lead \o join(toks, l.sep) :
        l \in Layouts, toks \in UNION {[1..n -> ScriptTokens] : n \in 0..MaxTokens}}

\* Ports passed to update_explicit_port_in_dev_script.
NewPorts == {80, 7842}

ScriptInit ==
    /\ ManagerInit
    /\ AppInit
    /\ input \in [script : Scripts, port : NewPorts]
    /\ output = NoOutput

ParsePort ==
    /\ output = NoOutput
    /\ output' = [op |-> "parse", port |-> parse_explicit_port_from_dev_script(input.script)]
    /\ UNCHANGED <<managerVars, appVars, input>>

UpdatePort ==
    /\ output = NoOutput
    /\ output' = update_explicit_port_in_dev_script(input.script, input.port)
    /\ UNCHANGED <<managerVars, appVars, input>>

ScriptNext == ParsePort \/ UpdatePort

ScriptSpec == ScriptInit /\ [][ScriptNext]_vars

(* --------------------------- dev_server_detect -------------------------- *)

\* A JSON field that is absent or is not a string (as_str gives None).
NoText == [present |-> FALSE, text |-> ""]
Text(s) == [present |-> TRUE, text |-> s]

\* char::to_lowercase on ASCII.
LowerChar(c) ==
    IF \E n \in 1..26 : SubSeq("ABCDEFGHIJKLMNOPQRSTUVWXYZ", n, n) = c
    THEN LET n == CHOOSE n \in 1..26 : SubSeq("ABCDEFGHIJKLMNOPQRSTUVWXYZ", n, n) = c
         IN  SubSeq("abcdefghijklmnopqrstuvwxyz", n, n)
    ELSE c

\* str::to_lowercase.
RECURSIVE to_lowercase(_)
to_lowercase(s) ==
    IF s = "" THEN "" ELSE LowerChar(SubSeq(s, 1, 1)) \o to_lowercase(Tail(s))

\* Lines 2402-2405 and the unwrap_or("") of lines 2417-2421.
package_manager(pkg) ==
    IF pkg.packageManager.present THEN to_lowercase(pkg.packageManager.text) ELSE ""

\* Lines 2417-2425.
detect_command(pm) ==
    IF starts_with(pm, "pnpm") THEN "pnpm"
    ELSE IF starts_with(pm, "npm") THEN "npm"
    ELSE IF starts_with(pm, "yarn") THEN "yarn"
    ELSE "bun"

\* Lines 2427-2431 with the test on yarn left out.
detect_args_AlwaysRun(command) == <<"run", "dev">>

\* Lines 2427-2431.
detect_args(command) == IF command = "yarn" THEN <<"dev">> ELSE <<"run", "dev">>

\* Line 2414 with the explicit port ignored.
detect_port_InferOnly(explicit_port, dev_script) == infer_default_dev_port(dev_script)

\* Line 2414: explicit_port.or_else(|| infer_default_dev_port(dev_script)).
detect_port(explicit_port, dev_script) ==
    IF explicit_port # NoPort THEN explicit_port ELSE infer_default_dev_port(dev_script)

\* Lines 2408-2412 with the test on empty parts left out.
has_dev_script_AcceptBlank(pkg) == pkg.dev.present

\* Lines 2408-2412: scripts.dev is a string with at least one token.
has_dev_script(pkg) == pkg.dev.present /\ split_whitespace(pkg.dev.text) # <<>>

DetectNone == [op |-> "detect", kind |-> "none"]
DetectErr == [op |-> "detect", kind |-> "err"]
DetectSome(config) == [op |-> "detect", kind |-> "some", config |-> config]

\* Lines 2394-2444.  dir.file is the state of <path>/package.json: "missing",
\* "invalid" (unreadable or not JSON) or "json"; dir.pkg is what it parses to.
dev_server_detect(dir) ==
    IF dir.file = "missing" THEN DetectNone
    ELSE IF dir.file = "invalid" THEN DetectErr
    ELSE IF has_dev_script(dir.pkg)
    THEN LET dev_script == dir.pkg.dev.text
             explicit_port == parse_explicit_port_from_dev_script(dev_script)
             command == detect_command(package_manager(dir.pkg))
         IN  DetectSome([command |-> command,
                         args |-> detect_args(command),
                         port |-> detect_port(explicit_port, dev_script),
                         explicit_port |-> explicit_port])
    ELSE DetectNone

\* Project directories enumerated.
Managers == {"bun", "pnpm", "yarn", "npm"}
ManagerFields ==
    {NoText, Text("pnpm@8.6.0"), Text("npm@10.2.0"), Text("yarn@4.1.0"),
     Text("bun@1.1.0"), Text("Yarn@1.22.0"), Text("deno@1.40.0")}
DevFields ==
    {NoText, Text(""), Text("  "), Text("next dev"), Text("vite"),
     Text("remix dev"), Text("node server.js"), Text("vite build --mode next"),
     Text("vite --port 4000"), Text("next dev -p7842"), Text("next dev -p"),
     Text("astro dev --port=abc")}
Dirs ==
    [file : {"missing", "invalid", "json"},
     pkg : [packageManager : ManagerFields, dev : DevFields],
     lockfiles : SUBSET Managers]

DetectInit ==
    /\ ManagerInit
    /\ AppInit
    /\ input \in Dirs
    /\ output = NoOutput

Detect ==
    /\ output = NoOutput
    /\ output' = dev_server_detect(input)
    /\ UNCHANGED <<managerVars, appVars, input>>

DetectNext == Detect

DetectSpec == DetectInit /\ [][DetectNext]_vars

(* -------------------------- dev_server_diagnose ------------------------- *)

\* Lines 2796-2799: the diagnosis reads the last 20 lines of the buffer.
LastLogCount == 20

\* Lines 2796-2799: logs[start..].to_vec().
last_log_lines(buf) ==
    IF Len(buf) > LastLogCount THEN SubSeq(buf, Len(buf) - LastLogCount + 1, Len(buf)) ELSE buf

\* Lines 2694-2706: DevServerDiagnosis.
Diagnosis(process_alive, port_listening, last_logs, problem, suggestion, suggested_command, diagnosis_code) ==
    [op |-> "diagnose",
     process_alive |-> process_alive,
     port_listening |-> port_listening,
     last_logs |-> last_logs,
     problem |-> problem,
     suggestion |-> suggestion,
     suggested_command |-> suggested_command,
     diagnosis_code |-> diagnosis_code]

\* Lines 2785-2793: one connect to 127.0.0.1:<port>, 500 ms timeout.
diagnose_port_listening(env) == <<"127.0.0.1", env.port>> \in env.listeners

\* Lines 2709-2892.  env.package_json is "missing", "no_dev" (unreadable, not
\* JSON, or without scripts.dev) or "ok"; env.tracked says whether the table
\* has a record for the path, env.alive what kill -0 on its child answers
\* (false without a child handle), env.logs is the record's buffer,
\* env.listeners the (host, port) pairs that accept a connection.
dev_server_diagnose(env) ==
    IF env.package_json = "missing"
    THEN Diagnosis(FALSE, FALSE, <<>>,
                   "No package.json found in this directory",
                   "Make sure you've opened the correct project folder. This directory doesn't appear to be a Node.js project.",
                   NoText, "no_package_json")
    ELSE IF env.package_json = "no_dev"
    THEN Diagnosis(FALSE, FALSE, <<>>,
                   "No 'dev' script found in package.json",
                   "Add a \"dev\" script to your package.json, for example: \"dev\": \"next dev\" or \"dev\": \"vite\"",
                   NoText, "no_dev_script")
    ELSE IF ~env.node_modules
    THEN Diagnosis(FALSE, FALSE, <<>>,
                   "Dependencies aren't installed yet",
                   "Run bun install in your project directory to install the packages your app needs.",
                   Text("bun install"), "no_node_modules")
    ELSE
    LET process_alive == env.tracked /\ env.alive
        port_listening == env.tracked /\ diagnose_port_listening(env)
        last_logs == IF env.tracked THEN last_log_lines(env.logs) ELSE <<>>
        log_text == join(last_logs, "\n")
        D(problem, suggestion, suggested_command, code) ==
            Diagnosis(process_alive, port_listening, last_logs,
                      problem, suggestion, suggested_command, code)
    IN  IF /\ ~process_alive
           /\ \/ last_logs = <<>>
              \/ contains(log_text, "ENOENT")
              \/ contains(log_text, "not found")
              \/ contains(log_text, "command not found")
           /\ \/ last_logs = <<>>
              \/ contains(log_text, "ENOENT")
              \/ contains(log_text, "command not found")
        THEN D("Couldn't find the dev command on your system",
               "Make sure your package manager (bun, npm, etc.) is installed and available in your PATH.",
               NoText, "command_not_found")
        ELSE IF \/ contains(log_text, "EADDRINUSE")
                \/ contains(log_text, "address already in use")
        THEN D("Port " \o to_string(env.port) \o " is already being used by another app",
               "Close the other process using this port, or change your dev server port.",
               Text("lsof -ti:" \o to_string(env.port) \o " | xargs kill"), "port_in_use")
        ELSE IF \/ contains(log_text, "MODULE_NOT_FOUND")
                \/ contains(log_text, "Cannot find module")
                \/ contains(log_text, "Module not found")
        THEN D("Some packages are missing",
               "Install your project's dependencies to fix the missing modules.",
               Text("bun install"), "missing_deps")
        ELSE IF \/ contains(log_text, "SyntaxError")
                \/ contains(log_text, "TypeError")
                \/ contains(log_text, "ReferenceError")
                \/ contains(log_text, "error TS")
                \/ contains(log_text, "Build error")
                \/ contains(log_text, "Failed to compile")
        THEN D("Your code has errors that crashed the server",
               "Check the logs below for the specific error and fix it in your code.",
               NoText, "script_error")
        ELSE IF process_alive /\ ~port_listening
        THEN D("Server started but isn't responding on port " \o to_string(env.port),
               "Your framework may use a different port. Check your config file (next.config.js, vite.config.ts, etc.) or try waiting a bit longer for large projects.",
               NoText, "wrong_port")
        ELSE IF ~process_alive /\ last_logs # <<>>
        THEN D("The dev server stopped unexpectedly",
               "Check the logs below for details about what went wrong.",
               NoText, "process_crashed")
        ELSE D("Something went wrong",
               "Check the dev server logs for more information about the error.",
               NoText, "unknown")

\* Environments enumerated.  Log buffers: what a dev server typically prints,
\* one buffer longer than LastLogCount whose first line alone names ENOENT.
LoopbackHosts == {"127.0.0.1", "::1"}
ProbedPorts == {3000, 5173}
LogSamples ==
    {<<>>,
     <<"> bun run dev">>,
     <<"> bun run dev", "  Local: http://localhost:5173">>,
     <<"> bun run dev", "  Local: https://localhost:3000">>,
     <<"> bun run dev", "sh: 1: vite: not found">>,
     <<"> bun run dev", "zsh: command not found: bun">>,
     <<"> bun run dev", "Error: spawn bun ENOENT">>,
     <<"> bun run dev", "error: script \"dev\" exited with code 1">>,
     <<"> bun run dev", "Build failed with 1 error">>,
     <<"> bun run dev", "Failed to compile.">>,
     <<"> bun run dev", "Error: listen EADDRINUSE: address already in use :::3000">>,
     <<"> bun run dev", "Error: Cannot find module 'next'">>,
     <<"> bun run dev", "TypeError: x is not a function", "  Local: http://localhost:5173">>,
     <<"> bun run dev", "Server stopped">>,
     [i \in 1..(LastLogCount + 1) |-> IF i = 1 THEN "Error: spawn bun ENOENT" ELSE "ready"]}
Envs ==
    [package_json : {"missing", "no_dev", "ok"},
     node_modules : BOOLEAN,
     tracked : BOOLEAN,
     alive : BOOLEAN,
     port : {3000},
     listeners : SUBSET (LoopbackHosts \X ProbedPorts),
     logs : LogSamples]

DiagInit ==
    /\ ManagerInit
    /\ AppInit
    /\ input \in Envs
    /\ output = NoOutput

Diagnose ==
    /\ output = NoOutput
    /\ output' = dev_server_diagnose(input)
    /\ UNCHANGED <<managerVars, appVars, input>>

DiagNext == Diagnose

DiagSpec == DiagInit /\ [][DiagNext]_vars

(* ------------------------- the two kinds of mutex ----------------------- *)
(* The commands once more, one step per lock operation: a command that has  *)
(* been called waits for `manager.servers` (lock), and dev_server_stop,     *)
(* dev_server_state, dev_server_diagnose and the drain threads take the     *)
(* Mutex of a log buffer (bufLock).  Holders of a buffer lock: a command    *)
(* thread t, or the drain thread of a stream.                               *)

\* The drain thread of stream s as a holder of its buffer's lock.
DrainId(s) == IF s = "out" THEN -1 ELSE -2

\* Starts that have been called and have not spawned yet.
StartsInFlight == {t \in Threads : pc[t] \in {"start_wait", "spawn"}}

\* dev_server_start is called (line 2447); it goes on to `manager.servers.lock()`.
StartCall(t, k, cfg) ==
    /\ pc[t] = "idle"
    /\ nextPid + Cardinality(StartsInFlight) <= LockMaxPid
    /\ pc' = [pc EXCEPT ![t] = "start_wait"]
    /\ call' = [call EXCEPT ![t] = [key |-> k, cfg |-> cfg]]
    /\ ret' = NoResult
    /\ UNCHANGED <<bufLock, drainDone, input, output, appVars>>
    /\ UNCHANGED <<servers, lock, logs, children, nextPid, drainCount,
                   listening, tchild, qAlive, phase, markers>>

\* Lines 2455-2463: the table lock is free; take it, kill the child of an
\* existing record, and drop the guard at the end of the block.
StartLockKill(t) ==
    /\ pc[t] = "start_wait"
    /\ lock = 0
    /\ children' = IF Tracked(call[t].key)
                   THEN KillChild(children, servers[call[t].key].child) ELSE children
    /\ pc' = [pc EXCEPT ![t] = "spawn"]
    /\ ret' = NoResult
    /\ UNCHANGED <<bufLock, drainDone, input, output, appVars>>
    /\ UNCHANGED <<servers, lock, logs, nextPid, drainCount,
                   listening, call, tchild, qAlive, phase, markers>>

\* dev_server_stop is called (line 2579).
StopCall(t, k) ==
    /\ pc[t] = "idle"
    /\ Tracked(k) => markers[servers[k].logs] < LogMaxStops
    /\ pc' = [pc EXCEPT ![t] = "stop_wait"]
    /\ call' = [call EXCEPT ![t] = [key |-> k, cfg |-> NoCfg]]
    /\ ret' = NoResult
    /\ UNCHANGED <<bufLock, drainDone, input, output, appVars>>
    /\ UNCHANGED <<servers, lock, logs, children, nextPid, drainCount,
                   listening, tchild, qAlive, phase, markers>>

\* Lines 2586-2591: take the table lock; for a record, kill the child and
\* clear the handle, then go on to `server.logs.lock()` with the table guard
\* alive.  Without a record the function returns and the guard drops.
StopLock(t) ==
    /\ pc[t] = "stop_wait"
    /\ lock = 0
    /\ IF Tracked(call[t].key)
       THEN /\ lock' = t
            /\ children' = KillChild(children, servers[call[t].key].child)
            /\ servers' = [servers EXCEPT ![call[t].key] = StoppedRecord(servers[call[t].key])]
            /\ pc' = [pc EXCEPT ![t] = "stop_buf"]
            /\ ret' = NoResult
            /\ UNCHANGED call
       ELSE /\ pc' = [pc EXCEPT ![t] = "idle"]
            /\ call' = [call EXCEPT ![t] = NoCall]
            /\ ret' = [NoResult EXCEPT !.op = "stop", !.key = call[t].key]
            /\ UNCHANGED <<lock, children, servers>>
    /\ UNCHANGED <<bufLock, drainDone, input, output, appVars>>
    /\ UNCHANGED <<logs, nextPid, drainCount, listening,
                   tchild, qAlive, phase, markers>>

\* Line 2592: `server.logs.lock()` is granted.
StopBufLock(t) ==
    /\ pc[t] = "stop_buf"
    /\ bufLock[servers[call[t].key].logs] = 0
    /\ bufLock' = [bufLock EXCEPT ![servers[call[t].key].logs] = t]
    /\ pc' = [pc EXCEPT ![t] = "stop_push"]
    /\ ret' = NoResult
    /\ UNCHANGED <<drainDone, input, output, appVars>>
    /\ UNCHANGED <<servers, lock, logs, children, nextPid, drainCount,
                   listening, call, tchild, qAlive, phase, markers>>

\* Lines 2593-2597: push the marker; the buffer guard drops at the end of the
\* `if let`, the table guard when the function returns.
StopPush(t) ==
    LET k == call[t].key
        b == servers[k].logs
    IN  /\ pc[t] = "stop_push"
        /\ logs' = [logs EXCEPT ![b] = PushStopped(logs[b])]
        /\ phase' = [phase EXCEPT ![k] = "stopped"]
        /\ markers' = [markers EXCEPT ![b] = markers[b] + 1]
        /\ bufLock' = [bufLock EXCEPT ![b] = 0]
        /\ lock' = 0
        /\ pc' = [pc EXCEPT ![t] = "idle"]
        /\ call' = [call EXCEPT ![t] = NoCall]
        /\ ret' = [NoResult EXCEPT !.op = "stop", !.key = k]
        /\ UNCHANGED <<drainDone, input, output, appVars>>
        /\ UNCHANGED <<servers, children, nextPid, drainCount, listening,
                       tchild, qAlive>>

\* dev_server_state is called (line 2601).
QueryCall(t, k) ==
    /\ pc[t] = "idle"
    /\ pc' = [pc EXCEPT ![t] = "q_wait"]
    /\ call' = [call EXCEPT ![t] = [key |-> k, cfg |-> NoCfg]]
    /\ ret' = NoResult
    /\ UNCHANGED <<bufLock, drainDone, input, output, appVars>>
    /\ UNCHANGED <<servers, lock, logs, children, nextPid, drainCount,
                   listening, tchild, qAlive, phase, markers>>

\* Lines 2608-2633: take the table lock; for a record run both probes (the
\* port answers as it does when the result is built) and go on to
\* `server.logs.lock()`.  Without a record the default state is returned.
QueryLock(t) ==
    /\ pc[t] = "q_wait"
    /\ lock = 0
    /\ IF Tracked(call[t].key)
       THEN /\ lock' = t
            /\ \E alive \in ProbeAlive(servers[call[t].key].child) :
                   qAlive' = [qAlive EXCEPT ![t] = alive]
            /\ pc' = [pc EXCEPT ![t] = "q_buf"]
            /\ ret' = NoResult
            /\ UNCHANGED call
       ELSE /\ pc' = [pc EXCEPT ![t] = "idle"]
            /\ call' = [call EXCEPT ![t] = NoCall]
            /\ ret' = StateOf(call[t].key, FALSE)
            /\ UNCHANGED <<lock, qAlive>>
    /\ UNCHANGED <<bufLock, drainDone, input, output, appVars>>
    /\ UNCHANGED <<servers, logs, children, nextPid, drainCount,
                   listening, tchild, phase, markers>>

\* Lines 2635-2636: `server.logs.lock()` is granted.
QueryBufLock(t) ==
    /\ pc[t] = "q_buf"
    /\ bufLock[servers[call[t].key].logs] = 0
    /\ bufLock' = [bufLock EXCEPT ![servers[call[t].key].logs] = t]
    /\ pc' = [pc EXCEPT ![t] = "q_snap"]
    /\ ret' = NoResult
    /\ UNCHANGED <<drainDone, input, output, appVars>>
    /\ UNCHANGED <<servers, lock, logs, children, nextPid, drainCount,
                   listening, call, tchild, qAlive, phase, markers>>

\* Lines 2636-2651: clone the buffer under its lock (the guard drops with the
\* statement), build the state and return it; the table guard drops.
QuerySnapshot(t) ==
    /\ pc[t] = "q_snap"
    /\ ret' = StateOf(call[t].key, qAlive[t])
    /\ qAlive' = [qAlive EXCEPT ![t] = FALSE]
    /\ bufLock' = [bufLock EXCEPT ![servers[call[t].key].logs] = 0]
    /\ lock' = 0
    /\ pc' = [pc EXCEPT ![t] = "idle"]
    /\ call' = [call EXCEPT ![t] = NoCall]
    /\ UNCHANGED <<drainDone, input, output, appVars>>
    /\ UNCHANGED <<servers, logs, children, nextPid, drainCount,
                   listening, tchild, phase, markers>>

\* The text of a buffer line: the start line as line 2532 formats it, the
\* marker of line 2593, and for a stream what the dev server of this run
\* prints (timestamps left out).
LineText(line) ==
    IF line.kind = "start" THEN "> " \o line.cmd[1] \o " " \o line.cmd[2]
    ELSE IF line.kind = "stopped" THEN "Server stopped"
    ELSE IF line.kind = "out" THEN "ready"
    ELSE "error: script \"dev\" exited with code 1"

\* What dev_server_diagnose sees of the project of thread t's call once the
\* filesystem checks of lines 2716-2765 have passed.
DiagnoseEnv(t) ==
    LET k == call[t].key
    IN  [package_json |-> "ok",
         node_modules |-> TRUE,
         tracked |-> Tracked(k),
         alive |-> qAlive[t],
         port |-> call[t].cfg.port,
         listeners |-> {<<"127.0.0.1", p>> : p \in listening},
         logs |-> IF Tracked(k)
                  THEN [i \in 1..Len(logs[servers[k].logs]) |-> LineText(logs[servers[k].logs][i])]
                  ELSE <<>>]

\* dev_server_diagnose is called (line 2709) for a project that passes the
\* filesystem checks; it goes on to `manager.servers.lock()` (line 2774).
DiagnoseCall(t, k, port) ==
    /\ pc[t] = "idle"
    /\ pc' = [pc EXCEPT ![t] = "d_wait"]
    /\ call' = [call EXCEPT ![t] = [key |-> k, cfg |-> [NoCfg EXCEPT !.port = port]]]
    /\ ret' = NoResult
    /\ UNCHANGED <<bufLock, drainDone, input, output, appVars>>
    /\ UNCHANGED <<servers, lock, logs, children, nextPid, drainCount,
                   listening, tchild, qAlive, phase, markers>>

\* Lines 2774-2793: take the table lock; for a record run both probes and go
\* on to `server.logs.lock()`.  Without a record the guard drops at the end
\* of the block and the diagnosis is made of the defaults.
DiagnoseLock(t) ==
    /\ pc[t] = "d_wait"
    /\ lock = 0
    /\ IF Tracked(call[t].key)
       THEN /\ lock' = t
            /\ \E alive \in ProbeAlive(servers[call[t].key].child) :
                   qAlive' = [qAlive EXCEPT ![t] = alive]
            /\ pc' = [pc EXCEPT ![t] = "d_buf"]
            /\ ret' = NoResult
            /\ UNCHANGED call
       ELSE /\ pc' = [pc EXCEPT ![t] = "idle"]
            /\ call' = [call EXCEPT ![t] = NoCall]
            /\ ret' = dev_server_diagnose(DiagnoseEnv(t))
            /\ UNCHANGED <<lock, qAlive>>
    /\ UNCHANGED <<bufLock, drainDone, input, output, appVars>>
    /\ UNCHANGED <<servers, logs, children, nextPid, drainCount,
                   listening, tchild, phase, markers>>

\* Line 2796: `server.logs.lock()` is granted.
DiagnoseBufLock(t) ==
    /\ pc[t] = "d_buf"
    /\ bufLock[servers[call[t].key].logs] = 0
    /\ bufLock' = [bufLock EXCEPT ![servers[call[t].key].logs] = t]
    /\ pc' = [pc EXCEPT ![t] = "d_snap"]
    /\ ret' = NoResult
    /\ UNCHANGED <<drainDone, input, output, appVars>>
    /\ UNCHANGED <<servers, lock, logs, children, nextPid, drainCount,
                   listening, call, tchild, qAlive, phase, markers>>

\* Lines 2797-2892: copy the last lines; both guards drop at the end of the
\* block; match the log text and return the diagnosis.
DiagnoseSnapshot(t) ==
    /\ pc[t] = "d_snap"
    /\ ret' = dev_server_diagnose(DiagnoseEnv(t))
    /\ qAlive' = [qAlive EXCEPT ![t] = FALSE]
    /\ bufLock' = [bufLock EXCEPT ![servers[call[t].key].logs] = 0]
    /\ lock' = 0
    /\ pc' = [pc EXCEPT ![t] = "idle"]
    /\ call' = [call EXCEPT ![t] = NoCall]
    /\ UNCHANGED <<drainDone, input, output, appVars>>
    /\ UNCHANGED <<servers, logs, children, nextPid, drainCount,
                   listening, tchild, phase, markers>>

\* Lines 2551 and 2537: a drain thread has read a line of its pipe and
\* add_log's `logs.lock()` is granted.
DrainLock(p, s, bound) ==
    /\ children[p].state # "none"
    /\ ~drainDone[p][s]
    /\ Drained(p) < bound
    /\ bufLock[p] = 0
    /\ bufLock' = [bufLock EXCEPT ![p] = DrainId(s)]
    /\ ret' = NoResult
    /\ UNCHANGED <<drainDone, input, output, appVars>>
    /\ UNCHANGED <<servers, lock, logs, children, nextPid, drainCount,
                   listening, pc, call, tchild, qAlive, phase, markers>>

\* Lines 2538-2543 made to wait for the table lock before the line is pushed.
DrainPush_UnderTable(p, s) ==
    /\ bufLock[p] = DrainId(s)
    /\ lock = 0
    /\ logs' = [logs EXCEPT ![p] = add_log(logs[p], StreamLine(p, s, drainCount[p][s] + 1))]
    /\ drainCount' = [drainCount EXCEPT ![p][s] = drainCount[p][s] + 1]
    /\ bufLock' = [bufLock EXCEPT ![p] = 0]
    /\ ret' = NoResult
    /\ UNCHANGED <<drainDone, input, output, appVars>>
    /\ UNCHANGED <<servers, lock, children, nextPid, listening, pc,
                   call, tchild, qAlive, phase, markers>>

\* Lines 2538-2543: under the buffer lock, push the line and cap the buffer;
\* the guard drops when add_log returns.
DrainPush(p, s) ==
    /\ bufLock[p] = DrainId(s)
    /\ logs' = [logs EXCEPT ![p] = add_log(logs[p], StreamLine(p, s, drainCount[p][s] + 1))]
    /\ drainCount' = [drainCount EXCEPT ![p][s] = drainCount[p][s] + 1]
    /\ bufLock' = [bufLock EXCEPT ![p] = 0]
    /\ ret' = NoResult
    /\ UNCHANGED <<drainDone, input, output, appVars>>
    /\ UNCHANGED <<servers, lock, children, nextPid, listening, pc,
                   call, tchild, qAlive, phase, markers>>

\* The steps of command thread t after its call.
ThreadStep(t) ==
    \/ StartLockKill(t)
    \/ SpawnPrimary(t)
    \/ SpawnFail(t)
    \/ StartInstall(t)
    \/ StopLock(t)
    \/ StopBufLock(t)
    \/ StopPush(t)
    \/ QueryLock(t)
    \/ QueryBufLock(t)
    \/ QuerySnapshot(t)
    \/ DiagnoseLock(t)
    \/ DiagnoseBufLock(t)
    \/ DiagnoseSnapshot(t)

\* Two command threads; path "a" is started (LockMaxPid children in all),
\* every command is called for "a" and for "b".
LockNext ==
    \/ \E t \in Threads :
          \/ StartCall(t, "a", [command |-> "bun", args |-> "run dev", port |-> 3000])
          \/ \E k \in Keys : StopCall(t, k) \/ QueryCall(t, k) \/ DiagnoseCall(t, k, 3000)
          \/ ThreadStep(t)
    \/ \E p \in Pids, s \in Streams : DrainLock(p, s, MaxEmit) \/ DrainPush(p, s)
    \/ \E p \in Pids : ChildExit(p)

\* Threads are scheduled by the OS: a thread that can go on does, a thread
\* waiting for a mutex that is released again and again gets it, and a drain
\* thread inside add_log leaves it.
LockSpec ==
    /\ Init
    /\ [][LockNext]_vars
    /\ \A t \in Threads : SF_vars(ThreadStep(t))
    /\ \A p \in Pids, s \in Streams : WF_vars(DrainPush(p, s))

(* ----------------------------- status cache ----------------------------- *)
(* get_status_cached, invalidate_status_cache and the git commands that     *)
(* call them.  A ProjectState is the version of the repository it was       *)
(* computed from; the clock advances in steps of TickMs.                    *)

\* Line 40: STATUS_CACHE_TTL, in ms.
STATUS_CACHE_TTL == 1000

\* One advance of the clock, in ms.
TickMs == 500

\* Instant::duration_since: zero when `earlier` is later than self.
duration_since(now, earlier) == IF now >= earlier THEN now - earlier ELSE 0

\* HashMap::remove / HashMap::insert on the entries of the cache.
CacheRemove(entries, path) == [x \in DOMAIN entries \ {path} |-> entries[x]]
CacheInsert(entries, path, e) == [x \in DOMAIN entries \cup {path} |-> IF x = path THEN e ELSE entries[x]]

\* Mutant: an entry is fresh only while younger than the TTL.
Fresh_Strict(entries, path, now) ==
    /\ path \in DOMAIN entries
    /\ duration_since(now, entries[path].cached_at) < STATUS_CACHE_TTL

\* Lines 84-90: the entry of path exists and is within the TTL, as seen from
\* the `now` the call read.
Fresh(entries, path, now) ==
    /\ path \in DOMAIN entries
    /\ duration_since(now, entries[path].cached_at) <= STATUS_CACHE_TTL

\* git::get_status(path): Err for a directory that is no repository.
get_status(path) ==
    IF path \in Repos THEN [ok |-> TRUE, state |-> repo[path].version]
    ELSE [ok |-> FALSE, state |-> 0]

\* What git_status returns.  History: floor is the latest mutation of the
\* repository whose command had returned when git_status was called, hit
\* whether the value came from the cache, age the entry's age on the clock
\* when it was looked up.
StatusResult(c, ok, state, hit, age) ==
    [op |-> "git_status", path |-> c.path, ok |-> ok, state |-> state,
     floor |-> c.floor, hit |-> hit, age |-> age]

\* get_status_cached returns to the command that called it: git_status
\* returns the value, set_project goes on (line 490) or returns the Err.
GscReturn(t, ok, state, hit, age) ==
    IF cmd[t].op = "set_project"
    THEN IF ok
         THEN /\ cmd' = [cmd EXCEPT ![t].pc = "sp_take"]
              /\ result' = NoReturn
         ELSE /\ cmd' = [cmd EXCEPT ![t] = Idle]
              /\ result' = [op |-> "set_project", path |-> cmd[t].path, ok |-> FALSE]
    ELSE /\ cmd' = [cmd EXCEPT ![t] = Idle]
         /\ result' = StatusResult(cmd[t], ok, state, hit, age)

\* Calls of get_status_cached that have not been counted yet.
LookingUp == {t \in Threads : cmd[t].pc = "gsc_lookup"}

\* Line 80: get_status_cached is entered and reads the clock.
GscEnter(t, op, path) ==
    /\ status_cache.hits + status_cache.misses + Cardinality(LookingUp) < MaxCalls
    /\ cmd' = [cmd EXCEPT ![t] = [pc |-> "gsc_lookup", op |-> op, path |-> path,
                                  now |-> clock, fresh |-> 0,
                                  floor |-> IF path \in Repos THEN repo[path].acked ELSE 0]]
    /\ result' = NoReturn

\* git_status(path) with a path (lines 335-351).
GitStatus(t, path) ==
    /\ cmd[t].pc = "idle"
    /\ GscEnter(t, "git_status", path)
    /\ UNCHANGED <<status_cache, clock, repo, recent_projects, current_project,
                   watcher_handle, watchers, saved_projects>>
    /\ UNCHANGED <<managerVars, input, output>>

\* Lines 82-102, under the cache lock: a fresh entry is a hit and is
\* returned; otherwise the entry, if any, is removed and the miss counted.
GscLookup(t) ==
    LET path == cmd[t].path
        entries == status_cache.entries
    IN  /\ cmd[t].pc = "gsc_lookup"
        /\ IF Fresh(entries, path, cmd[t].now)
           THEN /\ status_cache' = [status_cache EXCEPT !.hits = status_cache.hits + 1]
                /\ GscReturn(t, TRUE, entries[path].state, TRUE, clock - entries[path].cached_at)
           ELSE /\ status_cache' = [status_cache EXCEPT !.entries = CacheRemove(entries, path),
                                                        !.misses = status_cache.misses + 1]
                /\ cmd' = [cmd EXCEPT ![t].pc = "gsc_compute"]
                /\ result' = NoReturn
        /\ UNCHANGED <<clock, repo, recent_projects, current_project,
                       watcher_handle, watchers, saved_projects>>
        /\ UNCHANGED <<managerVars, input, output>>

\* Line 104: `git::get_status(path)?`, with no lock held.
GscCompute(t) ==
    LET fresh == get_status(cmd[t].path)
    IN  /\ cmd[t].pc = "gsc_compute"
        /\ IF fresh.ok
           THEN /\ cmd' = [cmd EXCEPT ![t].pc = "gsc_insert", ![t].fresh = fresh.state]
                /\ result' = NoReturn
           ELSE GscReturn(t, FALSE, 0, FALSE, 0)
        /\ UNCHANGED <<status_cache, clock, repo, recent_projects, current_project,
                       watcher_handle, watchers, saved_projects>>
        /\ UNCHANGED <<managerVars, input, output>>

\* Lines 106-115, under the cache lock: the computed state is inserted with
\* the time of the insert and returned.
GscInsert(t) ==
    /\ cmd[t].pc = "gsc_insert"
    /\ status_cache' = [status_cache EXCEPT
                          !.entries = CacheInsert(status_cache.entries, cmd[t].path,
                                                  [state |-> cmd[t].fresh, cached_at |-> clock])]
    /\ GscReturn(t, TRUE, cmd[t].fresh, FALSE, 0)
    /\ UNCHANGED <<clock, repo, recent_projects, current_project,
                   watcher_handle, watchers, saved_projects>>
    /\ UNCHANGED <<managerVars, input, output>>

\* Line 370 (git_save; the same in git_ship, git_sync, git_fetch and the
\* commands of lines 926-1102): the git operation succeeds and changes the
\* repository.
MutateRun(t, path) ==
    /\ cmd[t].pc = "idle"
    /\ repo[path].version < MaxMutations
    /\ repo' = [repo EXCEPT ![path].version = repo[path].version + 1]
    /\ cmd' = [cmd EXCEPT ![t] = [pc |-> "mut_inval", op |-> "git_save", path |-> path,
                                  v |-> repo[path].version + 1]]
    /\ result' = NoReturn
    /\ UNCHANGED <<status_cache, clock, recent_projects, current_project,
                   watcher_handle, watchers, saved_projects>>
    /\ UNCHANGED <<managerVars, input, output>>

\* Line 370: `git::save(..)?` is Err; the command returns it.
MutateFail(t, path) ==
    /\ cmd[t].pc = "idle"
    /\ result' = [op |-> "git_save", path |-> path, ok |-> FALSE]
    /\ UNCHANGED <<status_cache, clock, repo, recent_projects, current_project,
                   watcher_handle, watchers, saved_projects, cmd>>
    /\ UNCHANGED <<managerVars, input, output>>

\* Lines 371-372 and 118-121: invalidate_status_cache removes the entry under
\* the cache lock, and the command returns.
MutateInvalidate(t) ==
    LET path == cmd[t].path
    IN  /\ cmd[t].pc = "mut_inval"
        /\ status_cache' = [status_cache EXCEPT !.entries = CacheRemove(status_cache.entries, path)]
        /\ repo' = [repo EXCEPT ![path].acked = IF cmd[t].v > repo[path].acked
                                                 THEN cmd[t].v ELSE repo[path].acked]
        /\ cmd' = [cmd EXCEPT ![t] = Idle]
        /\ result' = [op |-> "git_save", path |-> path, ok |-> TRUE]
        /\ UNCHANGED <<clock, recent_projects, current_project,
                       watcher_handle, watchers, saved_projects>>
        /\ UNCHANGED <<managerVars, input, output>>

\* Time passes.
Tick ==
    /\ clock < MaxTicks * TickMs
    /\ clock' = clock + TickMs
    /\ result' = NoReturn
    /\ UNCHANGED <<status_cache, repo, recent_projects, current_project,
                   watcher_handle, watchers, saved_projects, cmd>>
    /\ UNCHANGED <<managerVars, input, output>>

\* Two command threads call git_status and a mutating command for one
\* repository, and git_status for a directory that is no repository.
CachePaths == {"/w/p01", "/w/tmp"}
CacheNext ==
    \/ \E t \in Threads, path \in CachePaths : GitStatus(t, path)
    \/ \E t \in Threads : GscLookup(t)
    \/ \E t \in Threads : GscCompute(t)
    \/ \E t \in Threads : GscInsert(t)
    \/ \E t \in Threads, path \in CachePaths \cap Repos : MutateRun(t, path)
    \/ \E t \in Threads, path \in CachePaths \cap Repos : MutateFail(t, path)
    \/ \E t \in Threads : MutateInvalidate(t)
    \/ Tick

CacheSpec == Init /\ [][CacheNext]_vars

(* ------------------------- AGENTS.md configuration ---------------------- *)
(* read_agents_config and write_agents_config.  A file is the sequence of   *)
(* its lines; Absent stands for a file that does not exist.                 *)

Absent == <<"<absent>">>

\* Lines 3024 and 2084: the names tried, in this order.
AgentsNames == <<"AGENTS.md", "agents.md", ".agents.md">>

\* str::trim_start / trim_end / trim.
RECURSIVE trim_start(_)
trim_start(s) == IF s # "" /\ IsSpace(SubSeq(s, 1, 1)) THEN trim_start(Tail(s)) ELSE s
RECURSIVE trim_end(_)
trim_end(s) ==
    IF s # "" /\ IsSpace(SubSeq(s, Len(s), Len(s))) THEN trim_end(SubSeq(s, 1, Len(s) - 1)) ELSE s
trim(s) == trim_end(trim_start(s))

\* Lines 3042-3045 and 3139-3142: the line, trimmed and lowercased, begins
\* with a port label.
has_port_label(line) ==
    LET lower == to_lowercase(trim(line))
    IN  \/ starts_with(lower, "- port:")
        \/ starts_with(lower, "port:")
        \/ starts_with(lower, "- dev server port:")
        \/ starts_with(lower, "dev server port:")

\* Lines 3052-3061: the first run of ASCII digits of value.
first_digits(value) ==
    LET digitAt == {i \in 1..Len(value) : is_ascii_digit(SubSeq(value, i, i))}
    IN  IF digitAt = {} THEN ""
        ELSE LET from == First(digitAt)
                 stop == {i \in from..Len(value) : ~is_ascii_digit(SubSeq(value, i, i))}
                 to == IF stop = {} THEN Len(value) ELSE First(stop) - 1
             IN  SubSeq(value, from, to)

\* Lines 3039-3068, the closure of find_map: the port a line declares, NoPort
\* when it declares none.
line_port(line) ==
    LET trimmed == trim(line)
        colon == First({i \in 1..Len(trimmed) : SubSeq(trimmed, i, i) = ":"})
        digits == first_digits(SubSeq(trimmed, colon + 1, Len(trimmed)))
    IN  IF ~has_port_label(line) THEN NoPort
        ELSE IF digits = "" THEN NoPort
        ELSE parse_u16(digits)

\* The back-tick of lines 3072-3076; a string of this module cannot hold the
\* character itself, so file contents are written with this one in its place.
BackTick == "~"

\* Lines 3071-3088: the command between the first and the last back-tick of
\* the first line that mentions "command" and has a back-tick.
line_command(lines) ==
    LET tick(l) == {i \in 1..Len(l) : SubSeq(l, i, i) = BackTick}
        at == {i \in 1..Len(lines) : contains(to_lowercase(lines[i]), "command") /\ tick(lines[i]) # {}}
    IN  IF at = {} THEN <<>>
        ELSE LET l == lines[First(at)]
                 start == First(tick(l))
                 end == CHOOSE i \in tick(l) : \A j \in tick(l) : j <= i
             IN  IF end > start + 1 THEN split_whitespace(SubSeq(l, start + 1, end - 1)) ELSE <<>>

\* The first of the three names that exists in the repository, 0 when none does.
existing_agents_file(files) ==
    LET at == {i \in 1..Len(AgentsNames) : files[AgentsNames[i]] # Absent}
    IN  IF at = {} THEN 0 ELSE First(at)

\* Lines 2082-2094: resolve_agents_file_path.
resolve_agents_file_path(files) ==
    IF existing_agents_file(files) = 0 THEN "AGENTS.md" ELSE AgentsNames[existing_agents_file(files)]

\* Lines 3022-3109.  dir.files maps the three names to their lines,
\* dir.is_monorepo is the outcome of the existence tests of lines 3028-3031.
read_agents_config(dir) ==
    LET n == existing_agents_file(dir.files)
    IN  IF n = 0
        THEN [op |-> "read", found |-> FALSE, port |-> NoPort, dev_command |-> <<>>,
              file_path |-> "", is_monorepo |-> dir.is_monorepo]
        ELSE LET lines == dir.files[AgentsNames[n]]
                 ports == {i \in 1..Len(lines) : line_port(lines[i]) # NoPort}
             IN  [op |-> "read", found |-> TRUE,
                  port |-> IF ports = {} THEN NoPort ELSE line_port(lines[First(ports)]),
                  dev_command |-> line_command(lines),
                  file_path |-> AgentsNames[n], is_monorepo |-> dir.is_monorepo]

\* `line.trim_start().to_ascii_lowercase().starts_with("## development server")`
is_dev_header(line) == starts_with(to_lowercase(trim_start(line)), "## development server")

\* Lines 3128-3148: for each line, whether the loop is inside the Development
\* Server section once the line's header test has run.
RECURSIVE in_dev_section(_, _)
in_dev_section(lines, i) ==
    IF i = 0 THEN FALSE
    ELSE IF is_dev_header(lines[i]) THEN TRUE
    ELSE IF starts_with(trim_start(lines[i]), "## ") THEN FALSE
    ELSE in_dev_section(lines, i - 1)

\* str::lines() of text that ends with trim_end(): blank lines at the end are
\* gone and the last line has no trailing whitespace.
RECURSIVE text_trim_end(_)
text_trim_end(lines) ==
    IF lines = <<>> THEN <<>>
    ELSE IF trim_end(lines[Len(lines)]) = "" THEN text_trim_end(SubSeq(lines, 1, Len(lines) - 1))
    ELSE SubSeq(lines, 1, Len(lines) - 1) \o <<trim_end(lines[Len(lines)])>>

\* Lines 3128-3148: the port lines of the Development Server section are
\* replaced.
rewrite_ports(lines, port) ==
    [i \in 1..Len(lines) |->
        IF in_dev_section(lines, i) /\ has_port_label(lines[i])
        THEN "- Port: " \o to_string(port) ELSE lines[i]]

\* Lines 3151-3158: a port line is added after every header of the section.
RECURSIVE add_port_after_header(_, _)
add_port_after_header(lines, port) ==
    IF lines = <<>> THEN <<>>
    ELSE <<lines[1]>>
         \o (IF is_dev_header(lines[1]) THEN <<"- Port: " \o to_string(port)>> ELSE <<>>)
         \o add_port_after_header(Tail(lines), port)

\* Lines 3118-3170: the content write_agents_config writes.
agents_content(existing, port) ==
    IF existing = Absent
    THEN <<"# Agent Configuration", "", "## Development Server", "- Port: " \o to_string(port)>>
    ELSE IF \E i \in 1..Len(existing) : contains(existing[i], "## Development Server")
    THEN IF \E i \in 1..Len(existing) : in_dev_section(existing, i) /\ has_port_label(existing[i])
         THEN rewrite_ports(existing, port)
         ELSE add_port_after_header(existing, port)
    ELSE text_trim_end(existing) \o <<"", "## Development Server", "- Port: " \o to_string(port)>>

\* Lines 3111-3174 with the write succeeding: the files of the repository
\* afterwards.
write_agents_config(dir, port) ==
    LET name == resolve_agents_file_path(dir.files)
    IN  [dir EXCEPT !.files[name] = agents_content(dir.files[name], port)]

\* Prior contents of the file.
AgentsContents ==
    {Absent,
     <<"# Project", "", "Run the tests before you commit.">>,
     <<"# Project", "", "## Development Server", "- Port: 3000", "- Command: ~bun run dev~">>,
     <<"# Project", "", "## Development Server", "", "Start it with ~bun run dev~.">>,
     <<"# Project", "", "## development server", "  port: 3000", "", "## Testing", "- Port: 9000">>,
     <<"# Project", "- Port: 8080", "", "## Development Server", "- Port: 3000">>,
     <<"# Project", "Dev server port: TBD", "", "## Development Server", "- Dev Server Port: 3000 (default)">>,
     <<"# Project", "", "## Testing", "Supporting ports are listed below.", "", "">>}

\* Repositories: the content under one of the names, the other names absent.
AgentsDirs ==
    {[files |-> [n \in {AgentsNames[i] : i \in 1..Len(AgentsNames)} |-> IF n = name THEN c ELSE Absent],
      is_monorepo |-> mono] :
        name \in {"AGENTS.md", ".agents.md"}, c \in AgentsContents, mono \in BOOLEAN}

AgentsPorts == {0, 80, 7842, 65535}

AgentsInit ==
    /\ ManagerInit
    /\ AppInit
    /\ input \in [dir : AgentsDirs, port : AgentsPorts]
    /\ output = NoOutput

\* write_agents_config(repo, port) is called and succeeds.
WriteAgents ==
    /\ output = NoOutput
    /\ output' = [op |-> "write", dir |-> write_agents_config(input.dir, input.port)]
    /\ UNCHANGED <<managerVars, appVars, input>>

\* read_agents_config(repo) is called after the write.
ReadAgents ==
    /\ output.op = "write"
    /\ output' = read_agents_config(output.dir)
    /\ UNCHANGED <<managerVars, appVars, input>>

AgentsNext == WriteAgents \/ ReadAgents

AgentsSpec == AgentsInit /\ [][AgentsNext]_vars

(* ----------------------------- saved projects --------------------------- *)
(* add_saved_project, remove_saved_project and reorder_saved_projects over  *)
(* saved_projects.json, which is read and written without failure.          *)

\* Path::file_name as lines 245-248 and 504-507 use it: the text after the
\* last "/", the whole path when there is none.
file_name(path) ==
    LET slashes == {i \in 1..Len(path) : SubSeq(path, i, i) = "/"}
        last == CHOOSE i \in slashes : \A j \in slashes : j <= i
    IN  IF slashes = {} \/ last = Len(path) THEN path ELSE SubSeq(path, last + 1, Len(path))

\* Vec::retain(|p| p.path != path)
RECURSIVE retain_other(_, _)
retain_other(projects, path) ==
    IF projects = <<>> THEN <<>>
    ELSE (IF projects[1].path # path THEN <<projects[1]>> ELSE <<>>)
         \o retain_other(Tail(projects), path)

\* Lines 280-284: for each path of the argument, the first project with that
\* path, if any, is pushed.
RECURSIVE named_projects(_, _)
named_projects(projects, paths) ==
    IF paths = <<>> THEN <<>>
    ELSE LET at == {i \in 1..Len(projects) : projects[i].path = paths[1]}
         IN  (IF at = {} THEN <<>> ELSE <<projects[First(at)]>>)
             \o named_projects(projects, Tail(paths))

\* Lines 287-291: the projects whose path the argument does not contain.
RECURSIVE unnamed_projects(_, _)
unnamed_projects(projects, paths) ==
    IF projects = <<>> THEN <<>>
    ELSE (IF \E i \in 1..Len(paths) : paths[i] = projects[1].path THEN <<>> ELSE <<projects[1]>>)
         \o unnamed_projects(Tail(projects), paths)

\* Lines 276-293: the list reorder_saved_projects persists.
reordered(projects, paths) == named_projects(projects, paths) \o unnamed_projects(projects, paths)

\* Lines 237-264: add_saved_project.  The directory must hold a .git entry.
AddSaved(path) ==
    /\ IF path \in Repos
       THEN /\ saved_projects' = Append(retain_other(saved_projects, path),
                                        [path |-> path, name |-> file_name(path),
                                         added_at |-> clock \div 1000])
            /\ result' = [op |-> "add_saved", path |-> path, ok |-> TRUE]
       ELSE /\ UNCHANGED saved_projects
            /\ result' = [op |-> "add_saved", path |-> path, ok |-> FALSE]
    /\ UNCHANGED <<status_cache, clock, repo, recent_projects, current_project,
                   watcher_handle, watchers, cmd>>
    /\ UNCHANGED <<managerVars, input, output>>

\* Lines 267-272: remove_saved_project.
RemoveSaved(path) ==
    /\ saved_projects' = retain_other(saved_projects, path)
    /\ result' = [op |-> "remove_saved", path |-> path, ok |-> TRUE]
    /\ UNCHANGED <<status_cache, clock, repo, recent_projects, current_project,
                   watcher_handle, watchers, cmd>>
    /\ UNCHANGED <<managerVars, input, output>>

\* Lines 275-295: reorder_saved_projects.
ReorderSaved(paths) ==
    /\ saved_projects' = reordered(saved_projects, paths)
    /\ result' = [op |-> "reorder", paths |-> paths, ok |-> TRUE]
    /\ UNCHANGED <<status_cache, clock, repo, recent_projects, current_project,
                   watcher_handle, watchers, cmd>>
    /\ UNCHANGED <<managerVars, input, output>>

\* Paths the commands are called with: three repositories and a directory
\* that is none.
SavedPaths == {"/w/p01", "/w/p02", "/w/p03", "/w/tmp"}

\* The paths arguments: every sequence of up to MaxPaths of them.
PathLists == UNION {[1..n -> SavedPaths] : n \in 0..MaxPaths}

SavedNext ==
    \/ \E path \in SavedPaths : AddSaved(path)
    \/ \E path \in SavedPaths : RemoveSaved(path)
    \/ \E paths \in PathLists : ReorderSaved(paths)

SavedSpec == Init /\ [][SavedNext]_vars

(* ------------------------------ set_project ----------------------------- *)
(* set_project (lines 479-528) step by step, one step per lock operation,   *)
(* and the thread start_watcher spawns (watcher.rs lines 57-130).           *)

\* Line 515: the recent list holds at most this many projects.
RECENT_MAX == 10

\* Vec::truncate
truncate(s, n) == IF Len(s) > n THEN SubSeq(s, 1, n) ELSE s

\* Lines 509-513: ProjectInfo of set_project.
ProjectInfo(path, now) == [path |-> path, name |-> file_name(path), last_opened |-> now \div 1000]

\* Mutant: the project is put in front without removing its older entry.
recent_update_NoRetain(recent, project) == truncate(<<project>> \o recent, RECENT_MAX)

\* Lines 517-521: retain, insert(0, ..), truncate.
recent_update(recent, project) == truncate(<<project>> \o retain_other(recent, project.path), RECENT_MAX)

\* Watcher threads that were spawned.
SpawnedWatchers == {w \in Wids : watchers[w].state # "none"}

\* Callers of set_project that have not yet reached start_watcher.
BeforeStart == {t \in Threads : cmd[t].pc \in {"gsc_lookup", "gsc_compute", "gsc_insert", "sp_take", "sp_start"} /\ cmd[t].op = "set_project"}

\* Lines 484-487: invalidate_all_status_cache, then get_status_cached is
\* entered.
SetProject(t, path) ==
    /\ cmd[t].pc = "idle"
    /\ Cardinality(SpawnedWatchers) + Cardinality(BeforeStart) < MaxWatchers
    /\ status_cache' = [status_cache EXCEPT !.entries = <<>>]
    /\ GscEnter(t, "set_project", path)
    /\ UNCHANGED <<clock, repo, recent_projects, current_project,
                   watcher_handle, watchers, saved_projects>>
    /\ UNCHANGED <<managerVars, input, output>>

\* Lines 490-492, under the handle lock: the handle is taken out and, if
\* there was one, stop() sends on its channel and drops the sender.
SpTake(t) ==
    /\ cmd[t].pc = "sp_take"
    /\ watcher_handle' = None
    /\ watchers' = IF watcher_handle = None THEN watchers
                   ELSE [watchers EXCEPT ![watcher_handle].stop_sent = TRUE,
                                         ![watcher_handle].sender = FALSE]
    /\ cmd' = [cmd EXCEPT ![t].pc = "sp_start"]
    /\ result' = NoReturn
    /\ UNCHANGED <<status_cache, clock, repo, recent_projects, current_project, saved_projects>>
    /\ UNCHANGED <<managerVars, input, output>>

\* Lines 495-496 and watcher.rs 50-57, 132: start_watcher makes the channel,
\* spawns the thread and returns Ok with the handle.
SpStart(t) ==
    LET w == First(Wids \ SpawnedWatchers)
    IN  /\ cmd[t].pc = "sp_start"
        /\ watchers' = [watchers EXCEPT ![w] = [state |-> "starting", path |-> cmd[t].path,
                                                stop_sent |-> FALSE, sender |-> TRUE]]
        /\ cmd' = [cmd EXCEPT ![t] = [pc |-> "sp_store", op |-> "set_project",
                                      path |-> cmd[t].path, w |-> w]]
        /\ result' = NoReturn
        /\ UNCHANGED <<status_cache, clock, repo, recent_projects, current_project,
                       watcher_handle, saved_projects>>
        /\ UNCHANGED <<managerVars, input, output>>

\* Line 497, under the handle lock: the new handle is stored; a handle that
\* is in the slot is dropped, its sender with it, and nothing is sent.
SpStore(t) ==
    /\ cmd[t].pc = "sp_store"
    /\ watcher_handle' = cmd[t].w
    /\ watchers' = IF watcher_handle = None THEN watchers
                   ELSE [watchers EXCEPT ![watcher_handle].sender = FALSE]
    /\ cmd' = [cmd EXCEPT ![t].pc = "sp_current"]
    /\ result' = NoReturn
    /\ UNCHANGED <<status_cache, clock, repo, recent_projects, current_project, saved_projects>>
    /\ UNCHANGED <<managerVars, input, output>>

\* Line 500, under the current_project lock.
SpCurrent(t) ==
    /\ cmd[t].pc = "sp_current"
    /\ current_project' = cmd[t].path
    /\ cmd' = [cmd EXCEPT ![t].pc = "sp_recent"]
    /\ result' = NoReturn
    /\ UNCHANGED <<status_cache, clock, repo, recent_projects,
                   watcher_handle, watchers, saved_projects>>
    /\ UNCHANGED <<managerVars, input, output>>

\* Lines 503-527: the ProjectInfo is built, the recent list updated under
\* its lock and saved, and Ok(project) returned.
SpRecent(t) ==
    LET project == ProjectInfo(cmd[t].path, clock)
    IN  /\ cmd[t].pc = "sp_recent"
        /\ recent_projects' = recent_update(recent_projects, project)
        /\ cmd' = [cmd EXCEPT ![t] = Idle]
        /\ result' = [op |-> "set_project", path |-> cmd[t].path, ok |-> TRUE,
                      project |-> project]
        /\ UNCHANGED <<status_cache, clock, repo, current_project,
                       watcher_handle, watchers, saved_projects>>
        /\ UNCHANGED <<managerVars, input, output>>

\* watcher.rs lines 64-76: the debouncer is made and the path watched; the
\* thread enters its loop.
WatcherSetup(w) ==
    /\ watchers[w].state = "starting"
    /\ watchers' = [watchers EXCEPT ![w].state = "running"]
    /\ result' = NoReturn
    /\ UNCHANGED <<status_cache, clock, repo, recent_projects, current_project,
                   watcher_handle, saved_projects, cmd>>
    /\ UNCHANGED <<managerVars, input, output>>

\* watcher.rs lines 66-69, 73-76: new_debouncer or watch fails and the
\* thread returns.
WatcherFail(w) ==
    /\ watchers[w].state = "starting"
    /\ watchers' = [watchers EXCEPT ![w].state = "exited"]
    /\ result' = NoReturn
    /\ UNCHANGED <<status_cache, clock, repo, recent_projects, current_project,
                   watcher_handle, saved_projects, cmd>>
    /\ UNCHANGED <<managerVars, input, output>>

\* watcher.rs lines 80-82: try_recv is Ok only when a stop was sent (it is
\* Err both on an empty and on a disconnected channel); the loop breaks.
WatcherStop(w) ==
    /\ watchers[w].state = "running"
    /\ watchers[w].stop_sent
    /\ watchers' = [watchers EXCEPT ![w].state = "exited"]
    /\ result' = NoReturn
    /\ UNCHANGED <<status_cache, clock, repo, recent_projects, current_project,
                   watcher_handle, saved_projects, cmd>>
    /\ UNCHANGED <<managerVars, input, output>>

\* The steps of a set_project call after its first.
SetProjectStep(t) ==
    \/ GscLookup(t)
    \/ GscCompute(t)
    \/ GscInsert(t)
    \/ SpTake(t)
    \/ SpStart(t)
    \/ SpStore(t)
    \/ SpCurrent(t)
    \/ SpRecent(t)

\* The steps of the watcher threads.
WatcherStep(w) ==
    \/ WatcherSetup(w)
    \/ WatcherFail(w)
    \/ WatcherStop(w)

\* Two command threads call set_project for two repositories and for a
\* directory that is no repository.
WatchPaths == {"/w/p01", "/w/p02", "/w/tmp"}

WatchNext ==
    \/ \E t \in Threads, path \in WatchPaths : SetProject(t, path)
    \/ \E t \in Threads : SetProjectStep(t)
    \/ \E w \in Wids : WatcherStep(w)

WatchSpec == Init /\ [][WatchNext]_vars

\* The repositories in the order earlier runs opened them.
RepoSeq == <<"/w/p01", "/w/p02", "/w/p03", "/w/p04", "/w/p05", "/w/p06", "/w/p07", "/w/p08", "/w/p09", "/w/p10", "/w/p11", "/w/p12">>

\* The recent list after the first k repositories were opened in turn by
\* set_project: what recent_projects.json holds when init_state loads it
\* (lines 128-136).
RECURSIVE RecentAfter(_)
RecentAfter(k) == IF k = 0 THEN <<>> ELSE recent_update(RecentAfter(k - 1), ProjectInfo(RepoSeq[k], 0))

\* The state after init_state: the recent list is the one on disk, empty on
\* a first run.
RecentInit ==
    /\ ManagerInit
    /\ status_cache = [entries |-> <<>>, hits |-> 0, misses |-> 0]
    /\ clock = 0
    /\ repo = [p \in Repos |-> [version |-> 0, acked |-> 0]]
    /\ recent_projects \in {RecentAfter(k) : k \in 0..Len(RepoSeq)}
    /\ current_project = NoProject
    /\ watcher_handle = None
    /\ watchers = [w \in Wids |-> NoWatcher]
    /\ saved_projects = <<>>
    /\ cmd = [t \in Threads |-> Idle]
    /\ result = NoReturn
    /\ input = <<>>
    /\ output = NoOutput

\* No command is in flight.
AllIdle == \A t \in Threads : cmd[t].pc = "idle"

\* The paths set_project is called with: the oldest, a middle and the newest
\* project of a loaded list, one in no list of ten, and a directory that is
\* no repository.
RecentPaths == {"/w/p01", "/w/p05", "/w/p10", "/w/p12", "/w/tmp"}

\* One command thread calls set_project again and again while time passes.
\* The watcher threads take no step here: they touch nothing but their own
\* state.
RecentNext ==
    \/ \E path \in RecentPaths : SetProject(1, path)
    \/ SetProjectStep(1)
    \/ Tick

RecentSpec == RecentInit /\ [][RecentNext]_vars

(* ------------------------------- claims --------------------------------- *)

\* Children of path k that are running.
LiveChildren(k) == {p \in Pids : children[p].state = "alive" /\ children[p].key = k}

\* The children the supervisor holds for path k: the record's child and the
\* child a start in progress has spawned and is about to insert.
HeldChildren(k) ==
    (IF Tracked(k) /\ servers[k].child # None THEN {servers[k].child} ELSE {})
    \cup {tchild[t] : t \in {u \in Threads : pc[u] = "install" /\ call[u].key = k}}

\* C1: with starts called one after the other, a path never has two live
\* children: when a start is about to spawn, no child of its path is alive
\* (the child of the record was killed), every live child of a path is the one
\* the supervisor holds, and when a start has returned Ok the record holds
\* the child it spawned, the newest one.
C1_OneLiveChildPerKey ==
    /\ \A k \in Keys : Cardinality(LiveChildren(k)) <= 1
    /\ \A k \in Keys : LiveChildren(k) \subseteq HeldChildren(k)
    /\ \A t \in Threads : pc[t] = "spawn" => LiveChildren(call[t].key) = {}
    /\ (ret.op = "start" /\ ret.ok) =>
          /\ Tracked(ret.key)
          /\ servers[ret.key].child = nextPid - 1
          /\ LiveChildren(ret.key) \subseteq {nextPid - 1}

\* C1 witness: the second of two starts for one path has returned; the first
\* child is dead and the record holds the second, which runs.
C1_Witness ==
    /\ ret.op = "start" /\ ret.ok
    /\ nextPid = 3
    /\ children[1].key = ret.key /\ children[2].key = ret.key
    /\ children[1].state = "dead" /\ children[2].state = "alive"
    /\ markers[1] = 0
    /\ servers[ret.key].child = 2

(* C2 *)

\* A step in which thread t returns from dev_server_state.
QueryReturns(t) == pc[t] = "q_probe" /\ pc'[t] = "idle"

\* C2: dev_server_state returns running = true only if, in that query, the
\* liveness probe of the record's child succeeded (process_alive, taken while
\* the record held a child) and the connect to the record's port succeeded.
C2_RunningNeedsBothProbes ==
    /\ [](\A t \in Threads : qAlive[t] =>
              /\ pc[t] = "q_probe"
              /\ Tracked(call[t].key)
              /\ servers[call[t].key].child # None)
    /\ [][\A t \in Threads : (QueryReturns(t) /\ ret'.running) =>
              /\ qAlive[t]
              /\ Tracked(call[t].key)
              /\ servers[call[t].key].child # None
              /\ servers[call[t].key].port # NoPort
              /\ servers[call[t].key].port \in listening]_vars

\* C2 witness: a query has just returned running = true.
C2_Witness == ret.op = "query" /\ ret.running

(* C3, C4 *)

\* C3 (as claimed): no log buffer ever holds more than 200 entries, the
\* stopped markers of dev_server_stop included.
C3_BufferWithinCap == \A p \in Pids : Len(logs[p]) <= LogCap

Min(a, b) == IF a <= b THEN a ELSE b

\* A step in which a drain thread of child p appends a line.
DrainStep(p) == \E s \in Streams : drainCount'[p][s] = drainCount[p][s] + 1

\* C4: a buffer that only add_log has appended to (d stdout lines after the
\* start line, no stopped marker) holds the last min(d + 1, 200) lines pushed,
\* in the order pushed; and every add_log keeps the lines held in their order,
\* puts the new line last, and drops the oldest line, and only it, exactly
\* when the push made the length exceed 200.
C4_CappedAppend ==
    /\ [](\A p \in Pids :
            (children[p].state # "none" /\ markers[p] = 0 /\ drainCount[p]["err"] = 0) =>
                LET d == drainCount[p]["out"]
                    n == Len(logs[p])
                IN  /\ n = Min(d + 1, LogCap)
                    /\ \A i \in 1..n :
                          LET j == d - (n - i)
                          IN  IF j = 0 THEN logs[p][i].kind = "start"
                              ELSE logs[p][i] = StreamLine(p, "out", j))
    /\ [][\A p \in Pids : DrainStep(p) =>
            LET old == logs[p]
                new == logs'[p]
                line == new[Len(new)]
            IN  /\ line.kind \in Streams /\ line.pid = p
                /\ new = IF Len(old) + 1 > LogCap
                         THEN SubSeq(old, 2, Len(old)) \o <<line>>
                         ELSE old \o <<line>>]_vars

\* C4 witness: 250 lines were appended and the buffer holds lines 51..250.
C4_Witness ==
    /\ drainCount[1]["out"] = 250
    /\ markers[1] = 0
    /\ Len(logs[1]) = LogCap
    /\ logs[1][1] = StreamLine(1, "out", 51)
    /\ logs[1][LogCap] = StreamLine(1, "out", 250)

(* C5 *)

\* C5: dev_server_state for a path with no record returns Ok with the
\* zero-value state: not running, no port, no logs.
C5_UntrackedQueryIsZero ==
    (ret.op = "query" /\ ~Tracked(ret.key)) =>
        /\ ret.ok
        /\ ret.err = <<>>
        /\ ~ret.running
        /\ ret.port = NoPort
        /\ ret.logs = <<>>

\* C5 witness: a query of an untracked path has returned while the other
\* path has a started record with captured lines and the port answers.
C5_Witness ==
    /\ ret.op = "query" /\ ~Tracked(ret.key)
    /\ \E k \in DOMAIN servers :
          /\ servers[k].child # None
          /\ servers[k].port \in listening
          /\ Len(logs[servers[k].logs]) >= 2

(* C6 *)

\* A step of dev_server_state by thread t.
QueryStep(t) ==
    \/ pc[t] = "idle" /\ pc'[t] = "q_probe"
    \/ pc[t] = "q_probe" /\ pc'[t] = "idle"

\* C6: no step of dev_server_state changes the table (its keys, and every
\* record's child handle, port and buffer), a log buffer or a child.
C6_QueryIsPureRead ==
    [][(\E t \in Threads : QueryStep(t)) =>
            /\ servers' = servers
            /\ logs' = logs
            /\ children' = children]_vars

\* C6 witness: a query has returned the state of a record that holds a child
\* and captured lines.
C6_Witness ==
    /\ ret.op = "query" /\ Tracked(ret.key)
    /\ servers[ret.key].child # None
    /\ Len(ret.logs) >= 2

(* C7 *)

\* C7: dev_server_stop on a tracked path kills the record's child if it has
\* one, clears the child handle, keeps the record with its port and buffer,
\* and leaves in the buffer the lines it held, in their order, followed by
\* one stopped marker; no other record, buffer or child changes.
\* dev_server_stop on an untracked path changes nothing.  Both return Ok.
C7_StopEffect ==
    [][ret'.op = "stop" =>
         LET k == ret'.key IN
         /\ ret'.ok
         /\ DOMAIN servers' = DOMAIN servers
         /\ \A x \in DOMAIN servers \ {k} : servers'[x] = servers[x]
         /\ IF Tracked(k)
            THEN LET rec == servers[k] IN
                 /\ servers'[k].child = None
                 /\ servers'[k].port = rec.port
                 /\ servers'[k].logs = rec.logs
                 /\ logs'[rec.logs] = logs[rec.logs] \o <<StoppedLine>>
                 /\ \A b \in Pids \ {rec.logs} : logs'[b] = logs[b]
                 /\ rec.child # None => children'[rec.child].state = "dead"
                 /\ \A c \in Pids \ {rec.child} : children'[c] = children[c]
            ELSE /\ servers' = servers
                 /\ logs' = logs
                 /\ children' = children]_vars

\* C7 witness: a stop has returned for a record whose child was running a
\* moment ago; the buffer holds its start line, a captured line and the marker.
C7_Witness ==
    /\ ret.op = "stop" /\ Tracked(ret.key)
    /\ servers[ret.key].child = None
    /\ LET buf == logs[servers[ret.key].logs] IN
          /\ Len(buf) = 3
          /\ buf[1].kind = "start"
          /\ buf[2].kind \in Streams
          /\ buf[3] = StoppedLine
    /\ children[servers[ret.key].logs].state = "dead"

(* C8 *)

\* C8 (as claimed): dev_server_start spawns no command other than the
\* configured one: the child a start is about to insert runs config.command.
C8_NoFallbackSpawn ==
    \A t \in Threads :
        pc[t] = "install" => children[tchild[t]].cmd = started_command(call[t].cfg)

(* C9 *)

\* C9: dev_server_state returns running = true for a path only between a
\* successful start of that path and the next stop of it; for a path never
\* started, or stopped since, it returns running = false.
C9_RunningOnlyWhileStarted ==
    /\ (ret.op = "query" /\ ret.running) => phase[ret.key] = "running"
    /\ \A k \in Keys : phase[k] # "running" => (~Tracked(k) \/ servers[k].child = None)
    /\ \A k \in Keys : phase[k] = "idle" <=> ~Tracked(k)

\* C9 witness: a query of a stopped record has returned running = false
\* although the record's port answers.
C9_Witness ==
    /\ ret.op = "query" /\ ~ret.running
    /\ phase[ret.key] = "stopped"
    /\ ret.port \in listening

(* C10 *)

\* C10 (as claimed): no spawned child is left running without the table, or
\* a start about to insert it, referencing it.
C10_NoOrphanChild ==
    \A p \in Pids :
        children[p].state = "alive" => p \in HeldChildren(children[p].key)

(* ------------------- claims: dev-script port functions ------------------ *)

\* A token that looks like a port flag, whatever its value.
FlagLike(tok) == starts_with(tok, "-p") \/ starts_with(tok, "--port")

\* Ports written into flags by the claims below.
ClaimPorts == {0, 80, 3000, 5173, 7842, 65535}

\* parts[i] is a port flag for port N in one of the four forms.
InForm(parts, i, N) ==
    \/ /\ parts[i] \in {"-p", "--port"}
       /\ i + 1 <= Len(parts)
       /\ parts[i + 1] = to_string(N)
    \/ parts[i] = "--port=" \o to_string(N)
    \/ parts[i] = "-p" \o to_string(N)

\* C11: for a dev script whose only flag is a port flag for port N, written
\* `-p N`, `--port N`, `--port=N` or `-pN`, parse_explicit_port_from_dev_script
\* returns N; for a dev script without any port flag it returns None.
C11_ParseFindsPort ==
    output.op = "parse" =>
        LET parts == split_whitespace(input.script)
            flags == {i \in 1..Len(parts) : FlagLike(parts[i])}
        IN  /\ flags = {} => output.port = NoPort
            /\ \A i \in 1..Len(parts), N \in ClaimPorts :
                   flags = {i} /\ InForm(parts, i, N) => output.port = N

\* The compact form was parsed, and so was the spaced form at the largest port.
C11_Witness ==
    /\ output.op = "parse"
    /\ \/ input.script = "next dev -p7842" /\ output.port = 7842
       \/ input.script = "  next  --port  65535" /\ output.port = 65535

\* C12: for a dev script carrying a port flag (one that
\* parse_explicit_port_from_dev_script finds) and any port p,
\* update_explicit_port_in_dev_script succeeds, the rewritten script parses to
\* p, and it has the tokens of the original in the same order but for one.
C12_UpdateRoundTrip ==
    (output.op = "update" /\ parse_explicit_port_from_dev_script(input.script) # NoPort) =>
        /\ output.ok
        /\ parse_explicit_port_from_dev_script(output.value) = input.port
        /\ LET old == split_whitespace(input.script)
               new == split_whitespace(output.value)
           IN  /\ Len(new) = Len(old)
               /\ Cardinality({i \in 1..Len(old) : new[i] # old[i]}) <= 1

(* C27 *)

\* The value of the flag occurrence at parts[i]: the next token after `-p`
\* or `--port`, the text after `--port=`, the text after `-p`; has is FALSE
\* when parts[i] is no flag or its value is missing.
FlagValue(parts, i) ==
    IF parts[i] \in {"-p", "--port"}
    THEN IF i + 1 <= Len(parts) THEN [has |-> TRUE, text |-> parts[i + 1]]
         ELSE [has |-> FALSE, text |-> ""]
    ELSE IF starts_with(parts[i], "--port=")
    THEN [has |-> TRUE, text |-> strip_prefix(parts[i], "--port=")]
    ELSE IF starts_with(parts[i], "-p") /\ Len(parts[i]) > 2
    THEN [has |-> TRUE, text |-> strip_prefix(parts[i], "-p")]
    ELSE [has |-> FALSE, text |-> ""]

\* A syntactically valid port: decimal digits with a value in 0..65535.
ValidPortText(v) == v # "" /\ AllDigits(v) /\ DecimalValue(v) <= 65535

\* C27: parse_explicit_port_from_dev_script returns the value of the leftmost
\* flag occurrence whose value is a syntactically valid port; occurrences
\* with a missing, non-numeric or out-of-range value are skipped, and None is
\* returned when no occurrence is valid.
C27_LeftmostValidFlag ==
    output.op = "parse" =>
        LET parts == split_whitespace(input.script)
            valid == {i \in 1..Len(parts) :
                         FlagValue(parts, i).has /\ ValidPortText(FlagValue(parts, i).text)}
        IN  IF valid = {}
            THEN output.port = NoPort
            ELSE output.port = DecimalValue(FlagValue(parts, First(valid)).text)

(* ---------------------- claims: dev_server_diagnose --------------------- *)

\* The port accepts a connection on one of the loopback hosts (localhost
\* resolves to 127.0.0.1 or ::1).
Reachable(p) == \E h \in LoopbackHosts : <<h, p>> \in input.listeners

\* dev_server_diagnose ran past the filesystem checks on a tracked path.
Diagnosed ==
    /\ output.op = "diagnose"
    /\ input.package_json = "ok"
    /\ input.node_modules
    /\ input.tracked

\* The log tail, joined as the diagnosis reads it.
LogText == join(last_log_lines(input.logs), "\n")

\* Diagnosis codes read as the reason codes PortMismatch, StartupTimeout,
\* ProtocolMismatch and CommandFailed.
PortMismatchCodes == {"PortMismatch", "port_mismatch", "wrong_port"}
StartupTimeoutCodes == {"StartupTimeout", "startup_timeout", "wrong_port"}
ProtocolMismatchCodes == {"ProtocolMismatch", "protocol_mismatch"}
CommandFailedCodes == {"CommandFailed", "command_failed", "command_not_found"}

\* C13: when the process is alive, the expected port 3000 is unreachable and
\* the port 5173 named by the log line "Local: http://localhost:5173" is
\* reachable, the diagnosis is PortMismatch and carries the observed port 5173
\* and the preferred URL http://localhost:5173.
C13_PortMismatch ==
    (/\ Diagnosed
     /\ input.alive
     /\ ~Reachable(input.port)
     /\ contains(LogText, "Local: http://localhost:5173")
     /\ Reachable(5173)) =>
        /\ output.diagnosis_code \in PortMismatchCodes
        /\ "observed_port" \in DOMAIN output
        /\ output.observed_port = 5173
        /\ "preferred_url" \in DOMAIN output
        /\ output.preferred_url = "http://localhost:5173"

\* C14: when the process is alive and neither the expected port nor the
\* other probed port is reachable, the diagnosis is ProtocolMismatch if the
\* logs contain https:// and StartupTimeout otherwise, whatever else the logs
\* contain.
C14_ProtocolOrTimeout ==
    (/\ Diagnosed
     /\ input.alive
     /\ \A p \in ProbedPorts : ~Reachable(p)) =>
        IF contains(LogText, "https://")
        THEN output.diagnosis_code \in ProtocolMismatchCodes
        ELSE output.diagnosis_code \in StartupTimeoutCodes

\* C15: when the process is not alive and the logs are non-empty and contain
\* "not found", "enoent", "failed" or "error" in any letter case, the
\* diagnosis is CommandFailed.
C15_CommandFailed ==
    (/\ Diagnosed
     /\ ~input.alive
     /\ input.logs # <<>>
     /\ \E marker \in {"not found", "enoent", "failed", "error"} :
            contains(to_lowercase(LogText), marker)) =>
        output.diagnosis_code \in CommandFailedCodes

\* C16: the port probe reports the port reachable as soon as one of the
\* loopback hosts accepts the connection, for example only ::1.
C16_AnyLoopbackHost ==
    Diagnosed => (output.port_listening <=> Reachable(input.port))

(* ----------------------- claims: dev_server_detect ---------------------- *)

\* The manager of the first lockfile found in the order bun, pnpm, yarn, npm.
LockfileManager(lockfiles) ==
    IF "bun" \in lockfiles THEN "bun"
    ELSE IF "pnpm" \in lockfiles THEN "pnpm"
    ELSE IF "yarn" \in lockfiles THEN "yarn"
    ELSE "npm"

\* C17: the command of a detected config is the manager package.json declares
\* when it declares one; otherwise the manager of the first lockfile found in
\* the order bun, pnpm, yarn, npm; with neither, detect returns no config.
C17_ManagerFromFieldOrLockfile ==
    (output.op = "detect" /\ input.file = "json") =>
        IF input.pkg.packageManager.present
        THEN \A m \in Managers :
                 (output.kind = "some"
                      /\ starts_with(to_lowercase(input.pkg.packageManager.text), m))
                     => output.config.command = m
        ELSE IF input.lockfiles # {}
        THEN output.kind = "some" =>
                 output.config.command = LockfileManager(input.lockfiles)
        ELSE output.kind = "none"

\* C18: in every config detect returns, args is <<"dev">> when the command
\* is yarn and <<"run", "dev">> for every other command.
C18_ArgsPerManager ==
    (output.op = "detect" /\ output.kind = "some") =>
        /\ output.config.command \in Managers
        /\ output.config.command = "yarn" => output.config.args = <<"dev">>
        /\ output.config.command # "yarn" => output.config.args = <<"run", "dev">>

\* detect returned a yarn config.
C18_Witness ==
    /\ output.op = "detect"
    /\ output.kind = "some"
    /\ output.config.command = "yarn"
    /\ output.config.args = <<"dev">>

\* C19: the port of a detected config is the explicit port of the dev script
\* when one parses; otherwise 3000 if the script contains next, else 5173 if
\* it contains vite, else 3000.  The port is never absent, and explicit_port
\* is set exactly when the script carries a port flag that parses.
C19_ExpectedPort ==
    (output.op = "detect" /\ output.kind = "some") =>
        LET script == input.pkg.dev.text
            explicit == parse_explicit_port_from_dev_script(script)
        IN  /\ output.config.port # NoPort
            /\ output.config.explicit_port = explicit
            /\ explicit # NoPort => output.config.port = explicit
            /\ explicit = NoPort =>
                   output.config.port =
                       IF contains(script, "next") THEN 3000
                       ELSE IF contains(script, "vite") THEN 5173
                       ELSE 3000

\* detect returned a config with an explicit port, and one with the port
\* inferred from vite.
C19_Witness ==
    /\ output.op = "detect"
    /\ output.kind = "some"
    /\ \/ input.pkg.dev.text = "vite --port 4000" /\ output.config.port = 4000
       \/ input.pkg.dev.text = "vite" /\ output.config.port = 5173

\* C20: when package.json is missing, or has no scripts.dev string, or its
\* dev script is blank, detect returns Ok(None): no config and no error.
C20_NotApplicable ==
    output.op = "detect" =>
        /\ input.file = "missing" => output.kind = "none"
        /\ (input.file = "json" /\ ~input.pkg.dev.present) => output.kind = "none"
        /\ (input.file = "json" /\ input.pkg.dev.present
                /\ \A i \in 1..Len(input.pkg.dev.text) :
                       IsSpace(SubSeq(input.pkg.dev.text, i, i)))
               => output.kind = "none"

\* detect ran on a package.json whose dev script is two spaces.
C20_Witness ==
    /\ output.op = "detect"
    /\ input.file = "json"
    /\ input.pkg.dev = Text("  ")
    /\ output.kind = "none"

(* ------------------- claims: start, stop and the buffer ----------------- *)

(* C21 *)

\* The lines of stream s in buf, by position.
StreamIndexes(buf, s) == {i \in 1..Len(buf) : buf[i].kind = s}

\* The lines of each stream stand in buf in the order the stream emitted them.
InStreamOrder(buf) ==
    \A s \in Streams : \A i, j \in StreamIndexes(buf, s) : i < j => buf[i].n < buf[j].n

\* C21: under every interleaving of the two drain threads, stop and query,
\* the lines of one stream of a child stand in its record's buffer, and in
\* the logs a query returns, in the order the stream emitted them, none lost
\* or repeated; the order between stdout and stderr lines is free.
C21_StreamOrder ==
    /\ \A p \in Pids :
           /\ InStreamOrder(logs[p])
           /\ \A s \in Streams :
                  {logs[p][i].n : i \in StreamIndexes(logs[p], s)} = 1..drainCount[p][s]
           /\ \A s \in Streams :
                  Cardinality(StreamIndexes(logs[p], s)) = drainCount[p][s]
    /\ ret.op = "query" => InStreamOrder(ret.logs)

\* A query returned a buffer in which stdout and stderr lines alternate around
\* the stopped marker.
C21_Witness ==
    /\ ret.op = "query"
    /\ Len(ret.logs) = 6
    /\ ret.logs[2].kind = "out"
    /\ ret.logs[3].kind = "err"
    /\ ret.logs[4].kind = "stopped"
    /\ ret.logs[5].kind = "out"
    /\ ret.logs[6].kind = "err"

\* C22: once dev_server_stop has pushed its stopped marker, no drain thread
\* appends to that buffer: while the path stays stopped, the marker is the
\* last line of its record's buffer.
C22_MarkerStaysLast ==
    \A k \in Keys :
        (Tracked(k) /\ phase[k] = "stopped") =>
            logs[servers[k].logs][Len(logs[servers[k].logs])] = StoppedLine

(* C23 *)

\* The lines of buf that were read from a pipe of a child other than p.
ForeignLines(buf, p) == {i \in 1..Len(buf) : buf[i].kind \in Streams /\ buf[i].pid # p}

\* C23 as stated: the logs a query returns for a started path begin with the
\* start line and hold no line of another child than the record's.
C23_StartLineFirst ==
    (ret.op = "query" /\ Tracked(ret.key) /\ servers[ret.key].child # None) =>
        /\ ret.logs[1].kind = "start"
        /\ ForeignLines(ret.logs, servers[ret.key].child) = {}

\* C23, amended: the logs a query returns for a started path hold no line of
\* another child than the record's, and begin with the start line as long as
\* they are shorter than the cap (the cap evicts the oldest line, which is
\* the start line).
C23_FreshBuffer ==
    (ret.op = "query" /\ Tracked(ret.key) /\ servers[ret.key].child # None) =>
        /\ ForeignLines(ret.logs, servers[ret.key].child) = {}
        /\ Len(ret.logs) < LogCap => ret.logs[1] = StartLine([command |-> "bun", args |-> "run dev", port |-> 3000])

\* A query on the restarted path returned the second child's buffer, start
\* line first, while the first child's buffer holds a line of its own.
C23_Witness ==
    /\ ret.op = "query"
    /\ Tracked(ret.key)
    /\ servers[ret.key].child = 2
    /\ ForeignLines(logs[1], 2) # {}
    /\ Len(ret.logs) = 3
    /\ ret.logs[1].kind = "start"
    /\ ret.logs[3] = StreamLine(2, "out", 2)

(* C24 *)

\* C24: once a child has exited or been killed, each of its drain threads
\* eventually returns, with nothing sent to it; and a query made after both
\* have returned gets the record's buffer with every line they appended.
C24_DrainThreadsEnd ==
    /\ \A p \in Pids, s \in Streams : children[p].state = "dead" ~> drainDone[p][s]
    /\ [](\A k \in Keys :
             (/\ ret.op = "query" /\ ret.key = k /\ Tracked(k)
              /\ \A s \in Streams : drainDone[servers[k].logs][s]) =>
                 /\ ret.logs = logs[servers[k].logs]
                 /\ \A s \in Streams :
                        {ret.logs[i].n : i \in StreamIndexes(ret.logs, s)}
                            = 1..drainCount[servers[k].logs][s])

\* Both drain threads of a killed child have returned, and a query then
\* returned the start line, the two lines they appended and the stopped marker.
C24_Witness ==
    /\ ret.op = "query"
    /\ Tracked(ret.key)
    /\ ~children[1].exited
    /\ \A s \in Streams : drainDone[1][s] /\ drainCount[1][s] = 1
    /\ Len(ret.logs) = 4

(* C28, C30 *)

\* C28: a start on a record whose child has already exited does not fail for
\* that: the step that kills goes on to the spawn with nothing returned and no
\* child changed, and a start returns an error only from its spawn stage.
C28_KillErrorIgnored ==
    [][/\ \A t \in Threads :
              (/\ pc[t] = "idle"
               /\ pc'[t] = "spawn"
               /\ Tracked(call'[t].key)
               /\ servers[call'[t].key].child # None
               /\ children[servers[call'[t].key].child].exited)
                  => (ret' = NoResult /\ children' = children)
       /\ (ret'.op = "start" /\ ~ret'.ok) =>
              \E t \in Threads : pc[t] = "spawn" /\ pc'[t] = "idle"]_vars

\* The first child of a path exited on its own, no stop cleared its handle,
\* and a second start of the path has installed the second child.
C28_Witness ==
    /\ ret.op = "start" /\ ret.ok
    /\ nextPid = 3
    /\ children[1].key = ret.key /\ children[2].key = ret.key
    /\ children[1].exited
    /\ markers[1] = 0
    /\ servers[ret.key].child = 2

\* C30: when a start has failed because nothing could be spawned, the child
\* the record of its path holds has not been killed: it runs, or it ended on
\* its own.
C30_FailedStartKeepsChild ==
    (ret.op = "start" /\ ~ret.ok /\ Tracked(ret.key) /\ servers[ret.key].child # None) =>
        \/ children[servers[ret.key].child].state = "alive"
        \/ children[servers[ret.key].child].exited

(* ------------------------- claims: the two mutexes ---------------------- *)

\* C25: no operation holds the table lock and a buffer lock at the same
\* time: whoever holds `manager.servers` holds the lock of no log buffer.
C25_NoNestedLocks ==
    \A t \in Threads : lock = t => \A p \in Pids : bufLock[p] # t

\* Command threads inside dev_server_state with the table lock taken.
Querying == {t \in Threads : pc[t] \in {"q_buf", "q_snap"}}

\* C26: queries for different paths do not contend: while a query for one
\* path is at its probes or its log snapshot, a query that has been called for
\* another path is not kept waiting, the table lock is free for it.
C26_QueriesDoNotContend ==
    \A t \in Querying, u \in Threads :
        (pc[u] = "q_wait" /\ call[u].key # call[t].key) => lock = 0

\* Positions at which a command thread waits for `manager.servers`.
TableWaits == {"start_wait", "install", "stop_wait", "q_wait", "d_wait"}

\* The order in which the locks are taken: a command thread that holds a
\* buffer lock took the table lock first and holds no second buffer lock, and
\* no command thread waits for the table lock with a buffer lock in hand.
LockOrder ==
    /\ \A p \in Pids : bufLock[p] \in Threads => lock = bufLock[p]
    /\ \A t \in Threads : Cardinality({p \in Pids : bufLock[p] = t}) <= 1
    /\ \A t \in Threads : pc[t] \in TableWaits => \A p \in Pids : bufLock[p] # t

\* C29: the supervisor cannot deadlock: buffer locks are taken after the
\* table lock and never the other way round, a drain thread inside add_log
\* leaves it, and every command that has been called returns (each command
\* thread is idle again and again, so none stays inside a command).
C29_NoDeadlock ==
    /\ []LockOrder
    /\ \A p \in Pids : []<>(bufLock[p] \notin {DrainId(s) : s \in Streams})
    /\ \A t \in Threads : []<>(pc[t] = "idle")

\* A command holds the table lock and waits for a buffer a drain thread has
\* locked, while the other command waits for the table lock.
C29_Witness ==
    \E t \in Threads, u \in Threads, s \in Streams :
        /\ pc[t] \in {"stop_buf", "q_buf", "d_buf"}
        /\ lock = t
        /\ bufLock[servers[call[t].key].logs] = DrainId(s)
        /\ pc[u] \in TableWaits

(* ------------------- claims: the port and the start line ---------------- *)

\* C32: a query for a record that was started without an expected port
\* returns running = false, whatever the child does and whatever listens.
C32_NoPortNeverRunning ==
    (ret.op = "query" /\ Tracked(ret.key) /\ servers[ret.key].port = NoPort) => ~ret.running

\* C32 witness: such a query has returned while the record's child is alive
\* and a port accepts connections.
C32_Witness ==
    /\ ret.op = "query"
    /\ Tracked(ret.key)
    /\ servers[ret.key].port = NoPort
    /\ servers[ret.key].child # None
    /\ children[servers[ret.key].child].state = "alive"
    /\ listening # {}

\* C38: the start line of the buffer created with a child names the command
\* line that child was spawned with.
C38_StartLineNamesSpawned ==
    \A p \in Pids :
        (children[p].state # "none" /\ logs[p] # <<>> /\ logs[p][1].kind = "start") =>
            logs[p][1].cmd = children[p].cmd

(* -------------------------- claims: status cache ------------------------ *)

\* C31: git_status never returns a state that predates a mutation whose
\* command had returned before git_status was called.
C31_StatusAfterMutation ==
    (result.op = "git_status" /\ result.ok) => result.state >= result.floor

\* Thread t takes its lookup step / its insert step.
LookupStep(t) == cmd[t].pc = "gsc_lookup" /\ cmd'[t] # cmd[t]
InsertStep(t) == cmd[t].pc = "gsc_insert" /\ cmd'[t] # cmd[t]

\* The age of the entry thread t looks up, against the clock reading of line 80.
SeenAge(t) == duration_since(cmd[t].now, status_cache.entries[cmd[t].path].cached_at)

\* C37 as stated: an entry is served only if its age when it is looked up is
\* at most the TTL.
C37_ServedWithinTTL ==
    (result.op = "git_status" /\ result.hit) => result.age <= STATUS_CACHE_TTL

\* C37, amended: an entry is served exactly when its age against the clock
\* reading taken on entry is at most the TTL; otherwise the entry, if any, is
\* removed and the status recomputed, and a status that was computed is cached
\* with the time of its insert; each call counts as one hit or one miss, and
\* nothing else moves the counters.
C37_TTL ==
    [][/\ \A t \in Threads : LookupStep(t) =>
            IF cmd[t].path \in DOMAIN status_cache.entries /\ SeenAge(t) <= STATUS_CACHE_TTL
            THEN /\ status_cache'.hits = status_cache.hits + 1
                 /\ status_cache'.misses = status_cache.misses
                 /\ status_cache'.entries = status_cache.entries
                 /\ cmd[t].op = "git_status" =>
                        /\ result'.hit
                        /\ result'.state = status_cache.entries[cmd[t].path].state
            ELSE /\ status_cache'.misses = status_cache.misses + 1
                 /\ status_cache'.hits = status_cache.hits
                 /\ cmd[t].path \notin DOMAIN status_cache'.entries
                 /\ cmd'[t].pc = "gsc_compute"
       /\ (\A t \in Threads : ~LookupStep(t)) =>
              /\ status_cache'.hits = status_cache.hits
              /\ status_cache'.misses = status_cache.misses
       /\ \A t \in Threads : InsertStep(t) =>
              status_cache'.entries[cmd[t].path] = [state |-> cmd[t].fresh, cached_at |-> clock]]_vars

\* C37 witness: git_status has served an entry whose age was exactly the
\* TTL, after two misses.
C37_Witness ==
    /\ result.op = "git_status"
    /\ result.hit
    /\ result.age = STATUS_CACHE_TTL
    /\ status_cache.misses >= 2

(* ------------------------ claims: AGENTS.md file ------------------------ *)

\* C36: after write_agents_config(repo, p) succeeds, read_agents_config(repo)
\* returns found = true and port = p, whatever the file held before.
C36_WriteReadRoundTrip ==
    output.op = "read" => (output.found /\ output.port = input.port)

(* ------------------------- claims: saved projects ----------------------- *)

\* How often path occurs in a list of projects.
Occurrences(projects, path) == Cardinality({i \in 1..Len(projects) : projects[i].path = path})

\* The paths of a list of projects, in order.
PathsOf(projects) == [i \in 1..Len(projects) |-> projects[i].path]

\* The elements of paths that name a project of the list, in order.
RECURSIVE KnownPaths(_, _)
KnownPaths(projects, paths) ==
    IF paths = <<>> THEN <<>>
    ELSE (IF Occurrences(projects, paths[1]) > 0 THEN <<paths[1]>> ELSE <<>>)
         \o KnownPaths(projects, Tail(paths))

\* C35: reorder_saved_projects only permutes the saved projects: each project
\* is in the persisted list exactly as often as before, the list of distinct
\* projects it started from stays a list of distinct projects, and the
\* projects named in paths come first, in the order given.
C35_ReorderPermutes ==
    [][result'.op = "reorder" =>
          /\ \A p \in SavedPaths :
                 Occurrences(saved_projects', p) = Occurrences(saved_projects, p)
          /\ \A p \in SavedPaths : Occurrences(saved_projects', p) <= 1
          /\ LET known == KnownPaths(saved_projects, result'.paths)
             IN  /\ Len(known) <= Len(saved_projects')
                 /\ SubSeq(PathsOf(saved_projects'), 1, Len(known)) = known]_vars

(* --------------------------- claims: set_project ------------------------ *)

\* Watcher threads that have not ended and were not sent a stop signal.
Unstopped == {w \in Wids : watchers[w].state \in {"starting", "running"} /\ ~watchers[w].stop_sent}

\* Watcher threads whose handle is gone: neither in the slot nor in the hands
\* of a set_project call that has yet to store it.
Replaced == {w \in SpawnedWatchers : w # watcher_handle /\ \A t \in Threads : ~(cmd[t].pc = "sp_store" /\ cmd[t].w = w)}

\* C33: after any set_project calls, concurrent ones included, at most one
\* watcher thread is active once the calls have returned, and every watcher
\* whose handle was replaced has been sent its stop signal.
C33_OneWatcher ==
    /\ AllIdle => Cardinality(Unstopped) <= 1
    /\ \A w \in Replaced : watchers[w].stop_sent

\* The recent list holds no path twice.
NoDuplicatePaths(recent) == \A i, j \in 1..Len(recent) : recent[i].path = recent[j].path => i = j

\* The recent list without the entry of path, order kept.
Others(recent, path) == SelectSeq(PathsOf(recent), LAMBDA p : p # path)

\* C34: from a recent list that set_project calls built, a successful
\* set_project leaves a list without duplicate paths, of at most 10 entries,
\* with the project just opened at index 0 followed by the other projects in
\* their former order (most recent first, so last_opened never increases
\* along the list); a failed set_project leaves the list unchanged.
C34_RecentList ==
    [][result'.op = "set_project" =>
          IF result'.ok
          THEN /\ NoDuplicatePaths(recent_projects')
               /\ Len(recent_projects') <= RECENT_MAX
               /\ recent_projects'[1] = result'.project
               /\ Tail(PathsOf(recent_projects'))
                    = truncate(Others(recent_projects, result'.path), RECENT_MAX - 1)
               /\ \A i \in 1..(Len(recent_projects') - 1) :
                      recent_projects'[i].last_opened >= recent_projects'[i + 1].last_opened
          ELSE recent_projects' = recent_projects]_vars

\* C34 witness: a project that was in no entry of a full list has been
\* opened; it is at index 0 and the oldest entry is gone.
C34_Witness ==
    /\ result.op = "set_project" /\ result.ok /\ result.path = "/w/p12"
    /\ Len(recent_projects) = RECENT_MAX
    /\ recent_projects[1].path = "/w/p12"
    /\ recent_projects[2].path = "/w/p10"
    /\ recent_projects[RECENT_MAX].path = "/w/p02"

====
